---- MODULE Spec2Model ----
(***************************************************************************)
(* Model of the order-lifecycle and position-monitoring engine of the MXC  *)
(* scalp bot: OrderManager (rate limiter and tracked-order map), the       *)
(* strategies with their position monitors, MetricsManager and             *)
(* RiskManager.                                                            *)
(*                                                                         *)
(* The program runs on one asyncio event loop: the code between two        *)
(* awaits is one atomic step.  Every action below is one such step of one  *)
(* coroutine, or one step of the environment (the clock, the exchange).    *)
(***************************************************************************)
EXTENDS Integers, Sequences, FiniteSets, TLC

(***************************************************************************)
(* Bounds of the model.                                                    *)
(***************************************************************************)
\* coroutines working the tracked-order map of the one OrderManager
NumTasks == 1
\* concurrent callers put to its rate limiter
NumCallers == 2
\* the clock stops at MaxClock ticks
MaxClock == 3
\* resolution of the clock: ticks per second
TicksPerSecond == 2
\* order ids the exchange hands out
MaxOrders == 1

(***************************************************************************)
(* Program constants.                                                      *)
(***************************************************************************)
\* OrderManager.max_orders_per_second
max_orders_per_second == 5

Tasks == 1..NumTasks
Callers == 1..NumCallers
OrderIds == 1..MaxOrders

\* the statuses an order response of the exchange can carry
NonTerminal == {"NEW", "PARTIALLY_FILLED"}
Terminal == {"FILLED", "CANCELED", "REJECTED", "EXPIRED"}
Statuses == NonTerminal \cup Terminal

VARIABLES
    \* ---- environment
    clock,                \* datetime.now(), in ticks
    exchange,             \* the exchange's book: order id -> status
    \* ---- OrderManager
    order_request_times,  \* OrderManager.order_request_times
    active_orders,        \* OrderManager.active_orders: order id -> order_info['status']
    client,               \* OrderManager.client: which gateway it was built with
    task,                 \* the coroutines calling the OrderManager
    \* ---- history
    admitted,             \* age in ticks -> callers _enforce_rate_limit let through then
    last_place,           \* how the last place_order that returned ended
    cancel_all            \* the last cancel_all_orders of each coroutine

omVars == <<clock, exchange, order_request_times, active_orders, client, task,
            admitted, last_place, cancel_all>>

\* no cancel_all_orders yet; "returned" is what the call gave back to its
\* caller, "failed" the orders whose cancel_order did not cancel, "snapshot"
\* the orders tracked when it was called and "sent" the orders it has asked
\* the gateway to cancel
NoCancelAll == [returned |-> "none", failed |-> {}, snapshot |-> {}, sent |-> {}]

\* no response of the gateway is waiting for the coroutine
NoAnswer == [kind |-> "none", id |-> 0, status |-> "NONE"]

\* a coroutine that is not inside the OrderManager
Idle ==
    [pc |-> "idle", now |-> 0, wake |-> 0, op |-> "none", oid |-> 0,
     queue |-> <<>>,
     answer |-> NoAnswer]

\* The gateways an OrderManager can be built with: MXCClient, whose
\* place_order does not take the keywords 'type' and 'timeInForce' that
\* OrderManager.place_order passes (the call raises TypeError before any
\* request is made), and a client that accepts the call.
Clients == {"MXCClient", "accepting"}

\* "NONE": the key is not in the dict / the order does not exist
InitOrderManager(c) ==
    /\ client = c
    /\ clock = 0
    /\ exchange = [i \in OrderIds |-> "NONE"]
    /\ order_request_times = <<>>
    /\ active_orders = [i \in OrderIds |-> "NONE"]
    /\ task = [t \in Tasks \cup Callers |-> Idle]
    /\ last_place = "none"
    /\ cancel_all = [t \in Tasks |-> NoCancelAll]
    /\ admitted = [a \in 0..(TicksPerSecond - 1) |-> 0]

(***************************************************************************)
(* OrderManager._enforce_rate_limit                                        *)
(***************************************************************************)
\* the list comprehension that drops the requests older than one second
CleanOld(times, now) ==
    SelectSeq(times, LAMBDA r : now - r < TicksPerSecond)

\* "if len(self.order_request_times) >= self.max_orders_per_second"
Saturated(times) == Len(times) >= max_orders_per_second

\* "sleep_time = 1.0 - (now - self.order_request_times[0]).total_seconds()"
SleepTime(times, now) == TicksPerSecond - (now - times[1])

\* the gateway calls of place_order: with its amount, and with neither
\* quantity nor quote_order_qty given
PlaceOps == {"place_req", "place_bare_req"}

\* The caller after _enforce_rate_limit has returned: the gateway call op is
\* awaited.  With MXCClient "self.client.place_order(**order_params)" raises
\* at once, the except branch returns None and nothing was sent.
GatewayCall(op, oid) ==
    IF op \in PlaceOps /\ client = "MXCClient"
    THEN Idle
    ELSE [pc |-> op, now |-> 0, wake |-> 0, op |-> "none", oid |-> oid,
          queue |-> <<>>,
          answer |-> NoAnswer]

\* place_order has returned None where the gateway call raised at once
PlaceEnded(op) ==
    IF op \in PlaceOps /\ client = "MXCClient" THEN "failed" ELSE last_place

\* The caller's turn in _enforce_rate_limit up to its first suspension: either
\* it is admitted at once (the request time is appended and the gateway call
\* op is started), or it goes to sleep.  No await separates the return of
\* _enforce_rate_limit from the start of the gateway call.
EnforceRateLimit(t, op, oid) ==
    LET now == clock
        cleaned == CleanOld(order_request_times, now)
    IN  IF Saturated(cleaned) /\ SleepTime(cleaned, now) > 0
        THEN /\ order_request_times' = cleaned
             /\ task' = [task EXCEPT ![t] =
                    [pc |-> "sleep", now |-> now,
                     wake |-> now + SleepTime(cleaned, now),
                     op |-> op, oid |-> oid, queue |-> <<>>,
                     answer |-> NoAnswer]]
             /\ UNCHANGED <<admitted, last_place>>
        ELSE /\ order_request_times' = Append(cleaned, now)
             /\ admitted' = [admitted EXCEPT ![0] = @ + 1]
             /\ task' = [task EXCEPT ![t] = GatewayCall(op, oid)]
             /\ last_place' = PlaceEnded(op)

\* "self.order_request_times.append(now)" after asyncio.sleep: now is the
\* time read before the sleep, and the window is not looked at again
WakeAppend(times, t) == Append(times, task[t].now)

\* asyncio.sleep(sleep_time) is over: the caller is admitted
RateLimitWake(t) ==
    /\ task[t].pc = "sleep"
    /\ clock >= task[t].wake
    /\ order_request_times' = WakeAppend(order_request_times, t)
    /\ admitted' = [admitted EXCEPT ![0] = @ + 1]
    /\ task' = [task EXCEPT ![t] = GatewayCall(task[t].op, task[t].oid)]
    /\ last_place' = PlaceEnded(task[t].op)
    /\ UNCHANGED <<clock, exchange, active_orders, client,
                   cancel_all>>

\* time passes: d ticks
Tick(d) ==
    /\ clock + d <= MaxClock
    /\ clock' = clock + d
    /\ admitted' = [a \in 0..(TicksPerSecond - 1) |->
                      IF a < d THEN 0 ELSE admitted[a - d]]
    /\ UNCHANGED <<exchange, order_request_times, active_orders, client, task,
                   last_place,
                   cancel_all>>

(***************************************************************************)
(* The gateway (self.client).  OrderManager only awaits it: a call either  *)
(* raises, or returns a response without 'orderId' (an error body), or     *)
(* returns an order.                                                       *)
(***************************************************************************)
\* the statuses a placement response carries (no 'status' key reads as NEW)
PlaceStatuses == Statuses \ {"CANCELED"}

FreeIds == {i \in OrderIds : exchange[i] = "NONE"}
Tracked == {i \in OrderIds : active_orders[i] # "NONE"}

PlaceResponses ==
    {[kind |-> "raise", id |-> 0, status |-> "NONE"],
     [kind |-> "noid", id |-> 0, status |-> "NONE"]}
    \cup (IF FreeIds = {} THEN {}
          ELSE LET id == CHOOSE i \in FreeIds : \A j \in FreeIds : i <= j
               IN  {[kind |-> "ok", id |-> id, status |-> s] : s \in PlaceStatuses})

(***************************************************************************)
(* OrderManager.place_order                                                *)
(***************************************************************************)
PlaceOrderCall(t) ==
    /\ task[t].pc = "idle"
    /\ EnforceRateLimit(t, "place_req", 0)
    /\ UNCHANGED <<clock, exchange, active_orders, client,
                   cancel_all>>

\* place_order(symbol, side, order_type) with quantity and quote_order_qty
\* left None: the two "is not None" tests skip the keys and the call goes the
\* same way as any other
PlaceOrderBare(t) ==
    /\ task[t].pc = "idle"
    /\ EnforceRateLimit(t, "place_bare_req", 0)
    /\ UNCHANGED <<clock, exchange, active_orders, client,
                   cancel_all>>

\* a place_order that leaves an entry behind for an order it did not get
TrackPlacedOrphan(orders, resp) ==
    IF resp.kind = "ok"
    THEN [orders EXCEPT ![resp.id] = resp.status]
    ELSE [i \in OrderIds |-> IF orders[i] = "NONE" THEN "NEW" ELSE orders[i]]

\* "if 'orderId' in result: ... self.active_orders[result['orderId']] = order_info";
\* the else branch and the except branch touch nothing
TrackPlaced(orders, resp) ==
    IF resp.kind = "ok"
    THEN [orders EXCEPT ![resp.id] = resp.status]
    ELSE orders

\* the gateway's answers to a request without an amount: the exchange does
\* not take it
BareResponses == {resp \in PlaceResponses : resp.kind # "ok"}

PlaceOrderResponse(t) ==
    /\ task[t].pc \in PlaceOps
    /\ \E resp \in IF task[t].pc = "place_req" THEN PlaceResponses
                                                ELSE BareResponses :
         /\ active_orders' = TrackPlaced(active_orders, resp)
         /\ exchange' = IF resp.kind = "ok"
                         THEN [exchange EXCEPT ![resp.id] = resp.status]
                         ELSE exchange
         /\ last_place' = IF resp.kind = "ok" THEN "ok" ELSE "failed"
         /\ task' = [task EXCEPT ![t] = Idle]
    /\ UNCHANGED <<clock, order_request_times, client, admitted,
                   cancel_all>>

(***************************************************************************)
(* OrderManager.cancel_order                                               *)
(***************************************************************************)
CancelOrderCall(t) ==
    /\ task[t].pc = "idle"
    /\ \E oid \in OrderIds : EnforceRateLimit(t, "cancel_req", oid)
    /\ UNCHANGED <<clock, exchange, active_orders, client,
                   cancel_all>>

\* The cancel responses of the gateway for order oid: an exception, an error
\* body, or the order: cancelled when it was still open, and with the status
\* it already had when the cancel came too late.
CancelResponses(oid) ==
    {[kind |-> "raise", id |-> 0, status |-> "NONE"],
     [kind |-> "noid", id |-> 0, status |-> "NONE"]}
    \cup (IF exchange[oid] = "NONE" THEN {}
          ELSE {[kind |-> "ok", id |-> oid,
                 status |-> IF exchange[oid] \in NonTerminal
                            THEN "CANCELED" ELSE exchange[oid]]})

\* "if 'orderId' in result: ... if order_id in self.active_orders: del ..."
UntrackCancelled(orders, resp) ==
    IF resp.kind = "ok"
    THEN [orders EXCEPT ![resp.id] = "NONE"]
    ELSE orders

CancelOrderResponse(t) ==
    /\ task[t].pc = "cancel_req"
    /\ \E resp \in CancelResponses(task[t].oid) :
         /\ active_orders' = UntrackCancelled(active_orders, resp)
         /\ exchange' = IF resp.kind = "ok"
                         THEN [exchange EXCEPT ![resp.id] = resp.status]
                         ELSE exchange
         /\ task' = [task EXCEPT ![t] = Idle]
    /\ UNCHANGED <<clock, order_request_times, client, admitted, last_place,
                   cancel_all>>

(***************************************************************************)
(* OrderManager.refresh_active_orders                                      *)
(***************************************************************************)
RECURSIVE SetToSeq(_)
\* list(self.active_orders.items()): the snapshot, here in order of id
SetToSeq(S) ==
    IF S = {} THEN <<>>
    ELSE LET m == CHOOSE i \in S : \A j \in S : i <= j
         IN  <<m>> \o SetToSeq(S \ {m})

\* the snapshot is taken and get_order_status is awaited for its first order
RefreshCall(t) ==
    /\ task[t].pc = "idle"
    /\ Tracked # {}
    /\ task' = [task EXCEPT ![t] =
           [pc |-> "refresh", now |-> 0, wake |-> 0, op |-> "none", oid |-> 0,
            queue |-> SetToSeq(Tracked),
            answer |-> NoAnswer]]
    /\ UNCHANGED <<clock, exchange, order_request_times, active_orders, client,
                   admitted, last_place,
                   cancel_all>>

\* get_order_status for order oid: None after an exception, a body without
\* 'status', or the order's status on the exchange
StatusResponses(oid) ==
    {[kind |-> "raise", id |-> 0, status |-> "NONE"],
     [kind |-> "nostatus", id |-> oid, status |-> "NONE"],
     [kind |-> "ok", id |-> oid, status |-> exchange[oid]]}

\* "order_info['status'] = status.get('status', order_info['status'])" and
\* "if status.get('status') in [...]: del self.active_orders[order_id]"; an
\* order a concurrent cancel already removed stays removed (the del raises
\* KeyError, which the loop body catches)
RefreshOne(orders, resp) ==
    IF resp.kind = "ok" /\ orders[resp.id] # "NONE"
    THEN [orders EXCEPT ![resp.id] =
            IF resp.status \in Terminal THEN "NONE" ELSE resp.status]
    ELSE orders

\* the gateway answers the get_order of the coroutine t: the response carries
\* the status of this moment, and waits until the coroutine is resumed
RefreshAnswer(t) ==
    /\ task[t].pc = "refresh"
    /\ task[t].answer = NoAnswer
    /\ \E resp \in StatusResponses(Head(task[t].queue)) :
         task' = [task EXCEPT ![t].answer = resp]
    /\ UNCHANGED <<clock, exchange, order_request_times, active_orders, client,
                   admitted, last_place, cancel_all>>

\* the coroutine is resumed with the response, and asks for the next order
RefreshResponse(t) ==
    /\ task[t].pc = "refresh"
    /\ task[t].answer # NoAnswer
    /\ LET rest == Tail(task[t].queue)
       IN  /\ active_orders' = RefreshOne(active_orders, task[t].answer)
           /\ task' = [task EXCEPT ![t] =
                  IF rest = <<>> THEN Idle
                  ELSE [task[t] EXCEPT !.queue = rest, !.answer = NoAnswer]]
    /\ UNCHANGED <<clock, exchange, order_request_times, client, admitted,
                   last_place, cancel_all>>

(***************************************************************************)
(* OrderManager.cancel_all_orders                                          *)
(***************************************************************************)
\* The loop "for symbol, order_id in orders_to_cancel" takes its next pair:
\* cancel_order runs up to its first suspension (the sleep of
\* _enforce_rate_limit, or the cancel request).  With no pair left the
\* function ends; it has no return statement, and the results of its
\* cancel_order calls were dropped.
CancelNext(t, rest, call) ==
    IF rest = <<>>
    THEN /\ task' = [task EXCEPT ![t] = Idle]
         /\ cancel_all' = [cancel_all EXCEPT
                             ![t] = [call EXCEPT !.returned = "None"]]
         /\ UNCHANGED <<order_request_times, admitted>>
    ELSE LET now == clock
             cleaned == CleanOld(order_request_times, now)
             wait == Saturated(cleaned) /\ SleepTime(cleaned, now) > 0
         IN  /\ order_request_times' =
                   IF wait THEN cleaned ELSE Append(cleaned, now)
             /\ admitted' =
                   IF wait THEN admitted ELSE [admitted EXCEPT ![0] = @ + 1]
             /\ task' = [task EXCEPT ![t] =
                    [pc |-> IF wait THEN "all_sleep" ELSE "all_cancel_req",
                     now |-> IF wait THEN now ELSE 0,
                     wake |-> IF wait THEN now + SleepTime(cleaned, now) ELSE 0,
                     op |-> "none", oid |-> Head(rest), queue |-> Tail(rest),
                     answer |-> NoAnswer]]
             /\ cancel_all' = [cancel_all EXCEPT
                                 ![t] = [call EXCEPT
                                           !.returned = "running",
                                           !.sent = IF wait THEN @
                                                    ELSE @ \cup {Head(rest)}]]

\* a list of the orders to cancel that leaves out the partially filled ones
OrdersToCancelNewOnly(orders) == {i \in OrderIds : orders[i] = "NEW"}

\* orders_to_cancel of cancel_all_orders(symbol=None): every key of
\* active_orders
OrdersToCancel(orders) == {i \in OrderIds : orders[i] # "NONE"}

\* cancel_all_orders(symbol=None): the list of the tracked orders is built
\* without an await, then the loop starts
CancelAllCall(t) ==
    /\ task[t].pc = "idle"
    /\ CancelNext(t, SetToSeq(OrdersToCancel(active_orders)),
                  [NoCancelAll EXCEPT !.snapshot = Tracked])
    /\ UNCHANGED <<clock, exchange, active_orders, client, last_place>>

\* asyncio.sleep of _enforce_rate_limit is over inside the loop
CancelAllWake(t) ==
    /\ task[t].pc = "all_sleep"
    /\ clock >= task[t].wake
    /\ order_request_times' = WakeAppend(order_request_times, t)
    /\ admitted' = [admitted EXCEPT ![0] = @ + 1]
    /\ task' = [task EXCEPT ![t].pc = "all_cancel_req", ![t].now = 0,
                            ![t].wake = 0]
    /\ cancel_all' = [cancel_all EXCEPT ![t].sent = @ \cup {task[t].oid}]
    /\ UNCHANGED <<clock, exchange, active_orders, client, last_place>>

\* what cancel_order gives back: None after an exception, the body otherwise
\* (an error body too); the loop does not keep it
CancelFailed(resp) == resp.kind # "ok"

\* the cancel request of the loop is answered, and the loop goes on
CancelAllResponse(t) ==
    /\ task[t].pc = "all_cancel_req"
    /\ \E resp \in CancelResponses(task[t].oid) :
         /\ active_orders' = UntrackCancelled(active_orders, resp)
         /\ exchange' = IF resp.kind = "ok"
                         THEN [exchange EXCEPT ![resp.id] = resp.status]
                         ELSE exchange
         /\ CancelNext(t, task[t].queue,
                       [cancel_all[t] EXCEPT
                          !.failed = IF CancelFailed(resp)
                                     THEN @ \cup {task[t].oid} ELSE @])
    /\ UNCHANGED <<clock, client, last_place>>

(***************************************************************************)
(* The exchange works on its open orders.                                  *)
(***************************************************************************)
ExchangeProgress ==
    /\ \E i \in OrderIds :
         /\ exchange[i] \in NonTerminal
         /\ \E s \in {"PARTIALLY_FILLED", "FILLED", "EXPIRED"} :
              /\ s # exchange[i]
              /\ exchange' = [exchange EXCEPT ![i] = s]
    /\ UNCHANGED <<clock, order_request_times, active_orders, client, task,
                   admitted, last_place,
                   cancel_all>>

(***************************************************************************)
(* The strategies, their position monitors and MetricsManager.             *)
(***************************************************************************)
\* entry orders the exchange accepts from the strategies
MaxEntries == 2
\* _analyze_and_trade tasks of the scalping strategy alive at a time
MaxScalpTasks == 1
\* entry orders the exchange accepts when single monitors are looked at
MaxMonitored == 1

\* Settings.scalp_profit_target and Settings.scalp_stop_loss, per mille
scalp_profit_target == 5
scalp_stop_loss == 3
\* FuturesStrategy.leverage
leverage == 10

Strategies == {"scalping", "futures"}
EntryIds == 1..MaxEntries
ScalpTasks == 1..MaxScalpTasks
\* the price a trade message of the websocket carries
MarketPrices == {1000}
\* the lastPrice a ticker response carries
TickerPrices == {950, 1000, 1020}
\* the quantity _calculate_position_size returns
Sizes == {1}
ScalpSides == {"BUY", "SELL"}
FutSides == {"LONG", "SHORT"}

VARIABLES
    is_running,           \* BaseStrategy.is_running of each strategy
    trading_enabled,      \* Settings.trading_enabled, one object for all
    settings,             \* Settings: the limits and targets, in riskVars
    analyze_task,         \* ScalpingStrategy._analyze_and_trade tasks
    futures_update,       \* the awaited FuturesStrategy._on_market_update
    scalp_positions,      \* ScalpingStrategy.active_positions: its keys
    futures_positions,    \* FuturesStrategy.active_positions: side -> order_id
    monitor,              \* the _monitor_position task made for each entry
    metrics,              \* MetricsManager
    entry_status          \* the exchange's status of each entry order

stratVars == <<is_running, trading_enabled, analyze_task, futures_update,
               scalp_positions, futures_positions, monitor, metrics,
               entry_status>>

NoPosition ==
    [order_id |-> 0, side |-> "none", entry_price |-> 0, size |-> 0,
     target_price |-> 0, stop_price |-> 0]
\* the keyword arguments of a place_order call
NoOrder == [side |-> "none", order_type |-> "none", quantity |-> 0]
NoMonitor ==
    [strategy |-> "none", position |-> NoPosition, pc |-> "none",
     current_price |-> 0, close_order |-> NoOrder]
NoTask == [pc |-> "none", side |-> "none", price |-> 0, size |-> 0]

InitStrategies ==
    /\ is_running = [s \in Strategies |-> FALSE]
    /\ trading_enabled \in BOOLEAN
    /\ analyze_task = [k \in ScalpTasks |-> NoTask]
    /\ futures_update = NoTask
    /\ scalp_positions = {}
    /\ futures_positions = [d \in FutSides |-> 0]
    /\ monitor = [e \in EntryIds |-> NoMonitor]
    /\ metrics = [total_trades |-> 0, total_profit |-> 0, win_count |-> 0,
                  loss_count |-> 0, profit_history |-> <<>>]
    /\ entry_status = [e \in EntryIds |-> "none"]

\* ---- starting and stopping

\* BaseStrategy.start, ScalpingStrategy.start: the web routes and main
start(s) ==
    /\ is_running' = [is_running EXCEPT ![s] = TRUE]
    /\ UNCHANGED <<trading_enabled, analyze_task, futures_update,
                   scalp_positions, futures_positions, monitor, metrics,
                   entry_status>>

\* BaseStrategy.stop, ScalpingStrategy.stop: the web routes and shutdown
stop(s) ==
    /\ is_running' = [is_running EXCEPT ![s] = FALSE]
    /\ UNCHANGED <<trading_enabled, analyze_task, futures_update,
                   scalp_positions, futures_positions, monitor, metrics,
                   entry_status>>

\* TelegramBot._start_trading, _start_futures_trading
StartTrading(s) ==
    /\ is_running' = [is_running EXCEPT ![s] = TRUE]
    /\ trading_enabled' = TRUE
    /\ UNCHANGED <<analyze_task, futures_update, scalp_positions,
                   futures_positions, monitor, metrics,
                   entry_status>>

\* TelegramBot._stop_trading, _stop_futures_trading
StopTrading(s) ==
    /\ is_running' = [is_running EXCEPT ![s] = FALSE]
    /\ trading_enabled' = FALSE
    /\ UNCHANGED <<analyze_task, futures_update, scalp_positions,
                   futures_positions, monitor, metrics,
                   entry_status>>

\* ---- the order requests of the strategies

\* the order ids the exchange has handed to the strategies so far
Entered == {e \in EntryIds : monitor[e].pc # "none"}
NextEntry == Cardinality(Entered) + 1

\* what MXCClient.place_order can come back with: an exception out of
\* _make_request, a body without 'orderId', or the accepted order
OrderResults ==
    {"raise", "error"} \cup (IF NextEntry \in EntryIds THEN {"ok"} ELSE {})
CloseResults == {"raise", "error", "ok"}
\* the status of an order the exchange has just accepted: a LIMIT order rests
\* or is matched at once, a MARKET order is matched or still being matched
EntryStatuses == {"NEW", "FILLED"}

\* ScalpingStrategy._find_scalping_opportunity: target and stop of a signal
ScalpTarget(side, price) ==
    IF side = "BUY"
    THEN (price * (1000 + settings.scalp_profit_target)) \div 1000
    ELSE (price * (1000 - settings.scalp_profit_target)) \div 1000
ScalpStop(side, price) ==
    IF side = "BUY"
    THEN (price * (1000 - settings.scalp_stop_loss)) \div 1000
    ELSE (price * (1000 + settings.scalp_stop_loss)) \div 1000

\* position_info of ScalpingStrategy._execute_trade
ScalpPositionInfo(id, side, size, target_price, stop_price) ==
    [order_id |-> id, side |-> side,
     entry_price |-> IF side = "BUY" THEN target_price ELSE stop_price,
     size |-> size, target_price |-> target_price, stop_price |-> stop_price]

\* position_info of FuturesStrategy._enter_position: stop_loss and
\* take_profit are the fields stop_price and target_price here
FuturesPositionInfo(id, side, entry_price, quantity) ==
    [order_id |-> id, side |-> side, entry_price |-> entry_price,
     size |-> quantity,
     target_price |-> IF side = "LONG" THEN (entry_price * 102) \div 100
                                       ELSE (entry_price * 98) \div 100,
     stop_price |-> IF side = "LONG" THEN (entry_price * 95) \div 100
                                     ELSE (entry_price * 105) \div 100]

\* ---- entries

FreeTasks == {k \in ScalpTasks : analyze_task[k].pc = "none"}

\* ScalpingStrategy._on_market_update: a synchronous callback that makes one
\* _analyze_and_trade task, which runs up to its first await (get_klines)
ScalpOnMarketUpdate(price) ==
    IF is_running["scalping"] /\ trading_enabled /\ FreeTasks # {}
    THEN LET k == CHOOSE f \in FreeTasks : \A g \in FreeTasks : f <= g
         IN [analyze_task EXCEPT ![k] = [NoTask EXCEPT !.pc = "analyze",
                                                       !.price = price]]
    ELSE analyze_task

\* FuturesStrategy._on_market_update, up to the get_klines of
\* _check_futures_opportunities
FuturesOnMarketUpdate(price) ==
    IF is_running["futures"] /\ trading_enabled
    THEN [NoTask EXCEPT !.pc = "analyze", !.price = price]
    ELSE NoTask

\* MXCClient._handle_websocket_message: one trade message, handed to the
\* callbacks in the order of their registration; the handler awaits the
\* futures callback before it takes the next message
MarketUpdate(price) ==
    /\ futures_update.pc = "none"
    /\ analyze_task' = ScalpOnMarketUpdate(price)
    /\ futures_update' = FuturesOnMarketUpdate(price)
    /\ UNCHANGED <<is_running, trading_enabled, scalp_positions,
                   futures_positions, monitor, metrics,
                   entry_status>>

\* _analyze_and_trade after get_klines and get_balance: no opportunity (or the
\* pair traded less than two seconds ago), or _execute_trade sends the order
ScalpAnalyze(k) ==
    /\ analyze_task[k].pc = "analyze"
    /\ \/ analyze_task' = [analyze_task EXCEPT ![k] = NoTask]
       \/ \E side \in ScalpSides, size \in Sizes :
            analyze_task' = [analyze_task EXCEPT ![k].pc = "entry",
                                                 ![k].side = side,
                                                 ![k].size = size]
    /\ UNCHANGED <<is_running, trading_enabled, futures_update,
                   scalp_positions, futures_positions, monitor, metrics,
                   entry_status>>

\* the monitor task as asyncio.create_task leaves it once it has run to its
\* first await: position read, get_ticker_24hr asked
NewMonitor(strategy, position) ==
    [strategy |-> strategy, position |-> position, pc |-> "ticker",
     current_price |-> 0, close_order |-> NoOrder]

\* the exchange matches a resting entry order; no code of the bot asks for
\* the status of an entry order of these two strategies
EntryFill(e) ==
    /\ entry_status[e] = "NEW"
    /\ entry_status' = [entry_status EXCEPT ![e] = "FILLED"]
    /\ UNCHANGED <<is_running, trading_enabled, analyze_task, futures_update,
                   scalp_positions, futures_positions, monitor, metrics>>

\* ScalpingStrategy._execute_trade after place_order
ScalpEntryResult(k) ==
    /\ analyze_task[k].pc = "entry"
    /\ \E r \in OrderResults :
         IF r = "ok"
         THEN LET t == analyze_task[k]
                  id == NextEntry
                  info == ScalpPositionInfo(id, t.side, t.size,
                                            ScalpTarget(t.side, t.price),
                                            ScalpStop(t.side, t.price))
              IN /\ scalp_positions' = scalp_positions \cup {id}
                 /\ monitor' = [monitor EXCEPT
                                  ![id] = NewMonitor("scalping", info)]
                 /\ \E st \in EntryStatuses :
                      entry_status' = [entry_status EXCEPT ![id] = st]
         ELSE UNCHANGED <<scalp_positions, monitor, entry_status>>
    /\ analyze_task' = [analyze_task EXCEPT ![k] = NoTask]
    /\ UNCHANGED <<is_running, trading_enabled, futures_update,
                   futures_positions, metrics>>

_has_position(side) == futures_positions[side] # 0

Opposite(side) == IF side = "LONG" THEN "SHORT" ELSE "LONG"

\* _check_futures_opportunities after get_klines, and _enter_position up to
\* place_order: no signal, a signal against an open position of the other
\* direction, or the order is sent
FuturesAnalyze ==
    /\ futures_update.pc = "analyze"
    /\ \/ futures_update' = NoTask
       \/ \E side \in FutSides, size \in Sizes :
            futures_update' =
               IF _has_position(Opposite(side))
               THEN NoTask
               ELSE [futures_update EXCEPT !.pc = "entry", !.side = side,
                                           !.size = size]
    /\ UNCHANGED <<is_running, trading_enabled, analyze_task,
                   scalp_positions, futures_positions, monitor, metrics,
                   entry_status>>

\* FuturesStrategy._enter_position after place_order
FuturesEntryResult ==
    /\ futures_update.pc = "entry"
    /\ \E r \in OrderResults :
         IF r = "ok"
         THEN LET t == futures_update
                  id == NextEntry
                  info == FuturesPositionInfo(id, t.side, t.price, t.size)
              IN /\ futures_positions' =
                       [futures_positions EXCEPT ![t.side] = id]
                 /\ monitor' = [monitor EXCEPT
                                  ![id] = NewMonitor("futures", info)]
                 /\ \E st \in EntryStatuses :
                      entry_status' = [entry_status EXCEPT ![id] = st]
         ELSE UNCHANGED <<futures_positions, monitor, entry_status>>
    /\ futures_update' = NoTask
    /\ UNCHANGED <<is_running, trading_enabled, analyze_task,
                   scalp_positions, metrics>>

\* ---- position monitors

\* "position key in self.active_positions" as the monitor m evaluates it
KeyInPositions(m) ==
    IF monitor[m].strategy = "scalping"
    THEN monitor[m].position.order_id \in scalp_positions
    ELSE _has_position(monitor[m].position.side)

\* should_take_profit or should_stop_loss of ScalpingStrategy
ScalpShouldClose(position, current_price) ==
    \/ position.side = "BUY" /\ current_price >= position.target_price
    \/ position.side = "SELL" /\ current_price <= position.target_price
    \/ position.side = "BUY" /\ current_price <= position.stop_price
    \/ position.side = "SELL" /\ current_price >= position.stop_price

\* a stop that an exact touch of the stop price does not trigger
FuturesShouldCloseStrict(position, current_price) ==
    \/ position.side = "LONG" /\ current_price < position.stop_price
    \/ position.side = "SHORT" /\ current_price > position.stop_price
    \/ position.side = "LONG" /\ current_price >= position.target_price
    \/ position.side = "SHORT" /\ current_price <= position.target_price

\* should_stop or should_take_profit of FuturesStrategy
FuturesShouldClose(position, current_price) ==
    \/ position.side = "LONG" /\ current_price <= position.stop_price
    \/ position.side = "SHORT" /\ current_price >= position.stop_price
    \/ position.side = "LONG" /\ current_price >= position.target_price
    \/ position.side = "SHORT" /\ current_price <= position.target_price

ShouldClose(m, current_price) ==
    IF monitor[m].strategy = "scalping"
    THEN ScalpShouldClose(monitor[m].position, current_price)
    ELSE FuturesShouldClose(monitor[m].position, current_price)

\* the place_order of the close in ScalpingStrategy._monitor_position
ScalpCloseOrder(position) ==
    [side |-> IF position.side = "BUY" THEN "SELL" ELSE "BUY",
     order_type |-> "MARKET", quantity |-> position.size]

\* the place_order of the close in FuturesStrategy._monitor_position
FuturesCloseOrder(position) ==
    [side |-> IF position.side = "LONG" THEN "SELL" ELSE "BUY",
     order_type |-> "MARKET", quantity |-> position.size]

CloseOrder(m) ==
    IF monitor[m].strategy = "scalping"
    THEN ScalpCloseOrder(monitor[m].position)
    ELSE FuturesCloseOrder(monitor[m].position)

ScalpProfit(position, current_price) ==
    IF position.side = "BUY"
    THEN (current_price - position.entry_price) * position.size
    ELSE (position.entry_price - current_price) * position.size

FuturesProfit(position, current_price) ==
    IF position.side = "LONG"
    THEN (current_price - position.entry_price) * position.size * leverage
    ELSE (position.entry_price - current_price) * position.size * leverage

Profit(m) ==
    IF monitor[m].strategy = "scalping"
    THEN ScalpProfit(monitor[m].position, monitor[m].current_price)
    ELSE FuturesProfit(monitor[m].position, monitor[m].current_price)

\* MetricsManager.record_trade
record_trade(mm, profit) ==
    [total_trades |-> mm.total_trades + 1,
     total_profit |-> mm.total_profit + profit,
     win_count |-> IF profit > 0 THEN mm.win_count + 1 ELSE mm.win_count,
     loss_count |-> IF profit < 0 THEN mm.loss_count + 1 ELSE mm.loss_count,
     profit_history |-> Append(mm.profit_history, profit)]

\* the monitor after get_ticker_24hr: the request raised or the body has no
\* lastPrice, and the exception ends the task; or a price, and the close
\* order is sent when the price is at the target or the stop
MonitorTicker(m) ==
    /\ monitor[m].pc = "ticker"
    /\ \/ monitor' = [monitor EXCEPT ![m].pc = "crashed"]
       \/ \E current_price \in TickerPrices :
            monitor' =
               IF ShouldClose(m, current_price)
               THEN [monitor EXCEPT ![m].pc = "closing",
                                    ![m].current_price = current_price,
                                    ![m].close_order = CloseOrder(m)]
               ELSE [monitor EXCEPT ![m].pc = "sleep",
                                    ![m].current_price = current_price]
    /\ UNCHANGED <<is_running, trading_enabled, analyze_task, futures_update,
                   scalp_positions, futures_positions, metrics,
                   entry_status>>

\* "del self.active_positions[key]" of the monitor m
DelPosition(m) ==
    IF monitor[m].strategy = "scalping"
    THEN /\ scalp_positions' =
              scalp_positions \ {monitor[m].position.order_id}
         /\ UNCHANGED futures_positions
    ELSE /\ futures_positions' =
              [futures_positions EXCEPT ![monitor[m].position.side] = 0]
         /\ UNCHANGED scalp_positions

\* where the monitor is after the close order was accepted and the trade
\* recorded: the del and the break, or the KeyError of the del
AfterClose(m) == IF KeyInPositions(m) THEN "closed" ELSE "crashed"

\* the monitor after the place_order of its close
MonitorCloseResult(m) ==
    /\ monitor[m].pc = "closing"
    /\ \E r \in CloseResults :
         CASE r = "raise" ->
                /\ monitor' = [monitor EXCEPT ![m].pc = "crashed"]
                /\ UNCHANGED <<scalp_positions, futures_positions, metrics>>
           [] r = "error" ->
                /\ monitor' = [monitor EXCEPT ![m].pc = "sleep"]
                /\ UNCHANGED <<scalp_positions, futures_positions, metrics>>
           [] r = "ok" ->
                /\ metrics' = record_trade(metrics, Profit(m))
                /\ IF KeyInPositions(m)
                   THEN DelPosition(m)
                   ELSE UNCHANGED <<scalp_positions, futures_positions>>
                /\ monitor' = [monitor EXCEPT ![m].pc = AfterClose(m)]
    /\ UNCHANGED <<is_running, trading_enabled, analyze_task, futures_update,
                   entry_status>>

\* the monitor after asyncio.sleep(1): the test of its while loop
MonitorWake(m) ==
    /\ monitor[m].pc = "sleep"
    /\ monitor' = [monitor EXCEPT
                     ![m].pc = IF KeyInPositions(m) THEN "ticker" ELSE "done",
                     ![m].current_price = 0,
                     ![m].close_order = NoOrder]
    /\ UNCHANGED <<is_running, trading_enabled, analyze_task, futures_update,
                   scalp_positions, futures_positions, metrics,
                   entry_status>>

(***************************************************************************)
(* RiskManager.                                                            *)
(***************************************************************************)
\* the RiskManager's clock stops at MaxHours hours
MaxHours == 48
\* trades RiskManager.record_trade is given
MaxTrades == 3

\* timedelta(days=1), in hours
HoursPerDay == 24

\* The floats of Settings and the amounts of money the RiskManager compares
\* with them are held in thousandths: 100.0 is 100000 and 0.005 is 5.
\* Settings of the risk limits: the defaults of max_daily_loss and
\* max_position_size, and max_consecutive_losses at its default and at 2
MaxDailyLossValues == {100000}
MaxConsecutiveLossesValues == {2, 5}
MaxPositionSizeValues == {10000}
\* the default of risk_per_trade
RiskPerTradeValues == {20}
\* the arguments of check_risk_limits: a quantity and a price
CheckSizes == {1, 2}
CheckPrices == {8000, 10000}
\* the free quote balance get_balance reports
Balances == {0, 8000, 1000000}
\* the profits record_trade is given
RiskProfits == {-101000, -100000, -5000, 0, 5000}
\* how far the RiskManager's clock moves at a time, in hours
HourSteps == {12}

VARIABLES
    hours,                \* datetime.now() as the RiskManager reads it, in hours
    daily_pnl,            \* RiskManager.daily_pnl
    daily_trades_count,   \* RiskManager.daily_trades_count
    consecutive_losses,   \* RiskManager.consecutive_losses
    daily_start_time,     \* RiskManager.daily_start_time
    daily_trade_history,  \* RiskManager.daily_trade_history: the profits
    risk_check,           \* the last call of check_risk_limits
    risk_book             \* position: RiskManager.active_positions, of
                          \*   the one symbol
                          \* status: what the last get_risk_status returned

\* what the position methods and get_risk_status work on
riskBook == <<risk_book>>

riskVars == <<hours, settings, daily_pnl, daily_trades_count,
              consecutive_losses, daily_start_time, daily_trade_history,
              risk_check, riskBook>>

\* no entry of active_positions for the symbol
NoRiskPosition ==
    [size |-> 0, side |-> "none", entry_price |-> 0, current_value |-> 0]
\* get_risk_status was not called yet
NoStatus ==
    [daily_pnl |-> 0, daily_trades_count |-> 0, consecutive_losses |-> 0,
     max_daily_loss |-> 0, max_consecutive_losses |-> 0,
     position_size_limit |-> 0, risk_per_trade |-> 0]

\* no call of check_risk_limits yet.  seen_pnl and seen_losses are what the
\* call read of daily_pnl and consecutive_losses after reset_daily_stats;
\* balance_read is whether it asked get_balance, and answer is what
\* get_balance gave it
NoCheck ==
    [pc |-> "none", size |-> 0, price |-> 0, allowed |-> FALSE,
     reason |-> "none", balance_read |-> FALSE, balance |-> 0,
     seen_pnl |-> 0, seen_losses |-> 0, answer |-> "none"]

InitRisk ==
    /\ hours = 0
    /\ settings \in [max_daily_loss : MaxDailyLossValues,
                     max_consecutive_losses : MaxConsecutiveLossesValues,
                     max_position_size : MaxPositionSizeValues,
                     risk_per_trade : RiskPerTradeValues,
                     scalp_profit_target : {scalp_profit_target},
                     scalp_stop_loss : {scalp_stop_loss}]
    /\ daily_pnl = 0
    /\ daily_trades_count = 0
    /\ consecutive_losses = 0
    /\ daily_start_time = 0
    /\ daily_trade_history = <<>>
    /\ risk_check = NoCheck
    /\ risk_book = [position |-> NoRiskPosition, status |-> NoStatus]

abs(x) == IF x < 0 THEN -x ELSE x

\* float('nan'): every comparison with it is false
NaN == -999999999
\* the comparisons of two floats
Greater(a, b) == a # NaN /\ b # NaN /\ a > b
LessEq(a, b) == a # NaN /\ b # NaN /\ a <= b

\* a day that is over after half of it
DayOverEarly == 2 * (hours - daily_start_time) >= HoursPerDay

\* RiskManager.reset_daily_stats: is a day over
DayOver == hours - daily_start_time >= HoursPerDay

\* the same checks with the position size looked at first
LimitReasonSizeFirst(pnl, losses, size, price) ==
    IF Greater(size * price, settings.max_position_size)
    THEN "position_size"
    ELSE IF pnl <= -abs(settings.max_daily_loss) THEN "daily_loss"
    ELSE IF losses >= settings.max_consecutive_losses
         THEN "consecutive_losses"
    ELSE "none"

\* the checks of check_risk_limits that need no await, in its order: the
\* reason of the first that fails, "none" when all pass
LimitReason(pnl, losses, size, price) ==
    IF pnl <= -abs(settings.max_daily_loss) THEN "daily_loss"
    ELSE IF losses >= settings.max_consecutive_losses
         THEN "consecutive_losses"
    ELSE IF Greater(size * price, settings.max_position_size)
         THEN "position_size"
    ELSE "none"

\* RiskManager.check_risk_limits up to its return or its await of
\* get_balance; reset_daily_stats is its first statement
CheckRiskLimits(size, price) ==
    /\ risk_check.pc # "balance"
    /\ LET pnl == IF DayOver THEN 0 ELSE daily_pnl
           losses == IF DayOver THEN 0 ELSE consecutive_losses
           reason == LimitReason(pnl, losses, size, price)
       IN /\ daily_pnl' = pnl
          /\ consecutive_losses' = losses
          /\ daily_trades_count' = IF DayOver THEN 0 ELSE daily_trades_count
          /\ daily_start_time' = IF DayOver THEN hours ELSE daily_start_time
          /\ daily_trade_history' =
               IF DayOver THEN <<>> ELSE daily_trade_history
          /\ risk_check' =
               [pc |-> IF reason = "none" THEN "balance" ELSE "done",
                size |-> size, price |-> price, allowed |-> FALSE,
                reason |-> reason, balance_read |-> reason = "none",
                balance |-> 0, seen_pnl |-> pnl, seen_losses |-> losses,
                answer |-> "none"]
    /\ UNCHANGED <<hours, settings, riskBook>>

\* a balance check that asks for more than the value of the trade
BalanceReasonStrict(quote_balance, size, price) ==
    IF quote_balance <= size * price THEN "insufficient_balance" ELSE "passed"

\* check_risk_limits after get_balance: the mocked client raised, or the free
\* quote balance is known (MXCClient.get_balance reports none on an error)
BalanceReason(quote_balance, size, price) ==
    IF quote_balance < size * price THEN "insufficient_balance" ELSE "passed"

\* What get_balance can give: the client raised; MXCClient.get_balance gave
\* the empty list because its request failed; a list with no entry of the
\* quote currency; a list with one.
BalanceAnswers == {"raised", "failed", "no_entry", "entry"}

\* a quote balance that is taken as plenty when the list has no entry
QuoteBalanceAssumed(answer, free) ==
    IF answer = "entry" THEN free ELSE 1000000

\* "quote_balance = 0.0" and the loop over the balances
QuoteBalance(answer, free) ==
    IF answer = "entry" THEN free ELSE 0

CheckBalanceResult ==
    /\ risk_check.pc = "balance"
    /\ \E answer \in BalanceAnswers :
         \E free \in IF answer = "entry" THEN Balances ELSE {0} :
            IF answer = "raised"
            THEN risk_check' = [risk_check EXCEPT !.pc = "done",
                                                  !.reason = "balance_error",
                                                  !.answer = answer]
            ELSE LET b == QuoteBalance(answer, free)
                     reason == BalanceReason(b, risk_check.size,
                                             risk_check.price)
                 IN risk_check' = [risk_check EXCEPT !.pc = "done",
                                                     !.balance = b,
                                                     !.reason = reason,
                                                     !.allowed = reason = "passed",
                                                     !.answer = answer]
    /\ UNCHANGED <<hours, settings, daily_pnl, daily_trades_count,
                   consecutive_losses, daily_start_time, daily_trade_history,
                   riskBook>>

\* a streak that a profit does not end
StreakKeptOnProfit(losses, profit) ==
    IF profit < 0 THEN losses + 1 ELSE IF profit = 0 THEN 0 ELSE losses

\* a streak that a profit of zero lengthens
StreakCountsZero(losses, profit) ==
    IF profit <= 0 THEN losses + 1 ELSE 0

\* "if profit < 0: self.consecutive_losses += 1 / else: ... = 0"
NextStreak(losses, profit) ==
    IF profit < 0 THEN losses + 1 ELSE 0

\* RiskManager.record_trade; it does not call reset_daily_stats
RiskRecordTrade(profit) ==
    /\ daily_trades_count < MaxTrades
    /\ daily_trade_history' = Append(daily_trade_history, profit)
    /\ daily_pnl' = daily_pnl + profit
    /\ daily_trades_count' = daily_trades_count + 1
    /\ consecutive_losses' = NextStreak(consecutive_losses, profit)
    /\ UNCHANGED <<hours, settings, daily_start_time, risk_check, riskBook>>

\* time passes for the RiskManager
HoursPass(d) ==
    /\ hours + d <= MaxHours
    /\ hours' = hours + d
    /\ UNCHANGED <<settings, daily_pnl, daily_trades_count,
                   consecutive_losses, daily_start_time, daily_trade_history,
                   risk_check, riskBook>>

\* the counters of the RiskManager and what its daily reset works on
riskCounters == <<daily_pnl, daily_trades_count, consecutive_losses,
                  daily_start_time, daily_trade_history>>

\* RiskManager.get_risk_status
GetRiskStatus ==
    /\ risk_book' =
         [risk_book EXCEPT !.status =
            [daily_pnl |-> daily_pnl,
             daily_trades_count |-> daily_trades_count,
             consecutive_losses |-> consecutive_losses,
             max_daily_loss |-> settings.max_daily_loss,
             max_consecutive_losses |-> settings.max_consecutive_losses,
             position_size_limit |-> settings.max_position_size,
             risk_per_trade |-> settings.risk_per_trade]]
    /\ UNCHANGED <<hours, settings, riskCounters, risk_check>>

\* RiskManager.update_position
UpdatePosition(size, side, entry_price) ==
    /\ risk_book' =
         [risk_book EXCEPT !.position =
            [size |-> size, side |-> side, entry_price |-> entry_price,
             current_value |-> size * entry_price]]
    /\ UNCHANGED <<hours, settings, riskCounters, risk_check>>

\* RiskManager.remove_position
RemovePosition ==
    /\ risk_book' = [risk_book EXCEPT !.position = NoRiskPosition]
    /\ UNCHANGED <<hours, settings, riskCounters, risk_check>>

(***************************************************************************)
(* The commands that change the configuration of a running bot:            *)
(* FuturesStrategy.set_leverage and the Telegram commands /set_leverage,   *)
(* /set_risk and /set_size.  Telegram hands a command to its handler as    *)
(* text; the handler parses the argument with int() or float().            *)
(***************************************************************************)
\* the arguments FuturesStrategy.set_leverage is called with
LeverageValues == {-5, 0, 1, 20, 125, 126, 200}
\* the argument texts of /set_leverage
LeverageTokens == {"abc", "0.5", "-5", "0", "1", "20", "125", "126", "200"}
\* the argument texts of /set_risk and /set_size
RiskTokens == {"abc", "nan", "-5", "0", "0.05", "0.6", "5"}
\* the parameter names of /set_risk, as the user types them
RiskParams == {"max_daily_loss", "risk_per_trade", "Max_Consecutive_Losses",
               "profit_target", "stop_loss", "leverage"}

VARIABLES
    futures_leverage,     \* FuturesStrategy.leverage
    command               \* the last configuration command handled

tgVars == <<futures_leverage, command>>

\* no command yet.  turn flips with every command handled
NoCommand ==
    [name |-> "none", authorized |-> FALSE, param |-> "none",
     token |-> "none", value |-> 0, turn |-> FALSE]

InitTelegram ==
    /\ futures_leverage = leverage
    /\ command = NoCommand

\* what int() and float() give for a text they do not accept
ValueError == [ok |-> FALSE, v |-> 0]

\* int() of an argument text
int(tok) ==
    CASE tok = "-5" -> [ok |-> TRUE, v |-> -5]
      [] tok = "0" -> [ok |-> TRUE, v |-> 0]
      [] tok = "1" -> [ok |-> TRUE, v |-> 1]
      [] tok = "5" -> [ok |-> TRUE, v |-> 5]
      [] tok = "20" -> [ok |-> TRUE, v |-> 20]
      [] tok = "125" -> [ok |-> TRUE, v |-> 125]
      [] tok = "126" -> [ok |-> TRUE, v |-> 126]
      [] tok = "200" -> [ok |-> TRUE, v |-> 200]
      [] OTHER -> ValueError

\* float() of an argument text, in thousandths
float(tok) ==
    CASE tok = "nan" -> [ok |-> TRUE, v |-> NaN]
      [] tok = "0.05" -> [ok |-> TRUE, v |-> 50]
      [] tok = "0.6" -> [ok |-> TRUE, v |-> 600]
      [] int(tok).ok -> [ok |-> TRUE, v |-> 1000 * int(tok).v]
      [] OTHER -> ValueError

\* a set_leverage that checks the upper limit only
SetLeverageNoLowerLimit(cur, v) == IF v <= 125 THEN v ELSE cur

\* FuturesStrategy.set_leverage: the leverage after the call
SetLeverage(cur, v) == IF 1 <= v /\ v <= 125 THEN v ELSE cur

\* a call of FuturesStrategy.set_leverage(v)
set_leverage(v) ==
    /\ futures_leverage' = SetLeverage(futures_leverage, v)
    /\ command' = [NoCommand EXCEPT !.name = "set_leverage",
                                    !.authorized = TRUE, !.value = v,
                                    !.turn = ~command.turn]

\* TelegramBot._set_leverage: /set_leverage <tok>
TgSetLeverage(authorized, tok) ==
    /\ command' = [NoCommand EXCEPT !.name = "/set_leverage",
                                    !.authorized = authorized,
                                    !.token = tok, !.turn = ~command.turn]
    /\ futures_leverage' =
         IF ~authorized THEN futures_leverage
         ELSE IF ~int(tok).ok THEN futures_leverage
         ELSE IF ~(1 <= int(tok).v /\ int(tok).v <= 125) THEN futures_leverage
         ELSE SetLeverage(futures_leverage, int(tok).v)

\* str.lower() of a parameter name
lower(name) ==
    IF name = "Max_Consecutive_Losses" THEN "max_consecutive_losses" ELSE name

\* TelegramBot._set_risk_parameters: the settings after
\* /set_risk <name> <tok>
SetRisk(cur, name, tok) ==
    LET param_name == lower(name)
        f == float(tok)
        i == int(tok)
    IN  CASE param_name = "max_daily_loss" ->
               IF f.ok /\ Greater(f.v, 0)
               THEN [cur EXCEPT !.max_daily_loss = f.v] ELSE cur
          [] param_name = "risk_per_trade" ->
               IF f.ok /\ Greater(f.v, 0) /\ LessEq(f.v, 500)
               THEN [cur EXCEPT !.risk_per_trade = f.v] ELSE cur
          [] param_name = "max_consecutive_losses" ->
               IF i.ok /\ i.v > 0
               THEN [cur EXCEPT !.max_consecutive_losses = i.v] ELSE cur
          [] param_name = "profit_target" ->
               IF f.ok /\ Greater(f.v, 0) /\ LessEq(f.v, 100)
               THEN [cur EXCEPT !.scalp_profit_target = f.v] ELSE cur
          [] param_name = "stop_loss" ->
               IF f.ok /\ Greater(f.v, 0) /\ LessEq(f.v, 100)
               THEN [cur EXCEPT !.scalp_stop_loss = f.v] ELSE cur
          [] OTHER -> cur

\* TelegramBot._set_risk_parameters
TgSetRisk(authorized, name, tok) ==
    /\ command' = [NoCommand EXCEPT !.name = "/set_risk",
                                    !.authorized = authorized,
                                    !.param = name, !.token = tok,
                                    !.turn = ~command.turn]
    /\ settings' = IF authorized THEN SetRisk(settings, name, tok)
                                 ELSE settings

\* TelegramBot._set_position_size: the settings after /set_size <tok>
SetSize(cur, tok) ==
    LET size == float(tok)
    IN  IF ~size.ok THEN cur
        ELSE IF LessEq(size.v, 0) THEN cur
        ELSE [cur EXCEPT !.max_position_size = size.v]

\* TelegramBot._set_position_size
TgSetSize(authorized, tok) ==
    /\ command' = [NoCommand EXCEPT !.name = "/set_size",
                                    !.authorized = authorized,
                                    !.token = tok, !.turn = ~command.turn]
    /\ settings' = IF authorized THEN SetSize(settings, tok) ELSE settings

\* the texts a form of the web interface carries
WebTokens == {"abc", "-5", "0.05"}
\* the fields of the set_risk form
WebParams == {"max_daily_loss", "risk_per_trade", "max_consecutive_losses",
              "profit_target", "stop_loss", "leverage"}

\* the route /set_risk of WebInterface, for a form of one field: the settings
\* after it
WebSetRisk(cur, param_name, value) ==
    LET f == float(value)
        i == int(value)
    IN  CASE param_name = "max_daily_loss" ->
               IF f.ok THEN [cur EXCEPT !.max_daily_loss = f.v] ELSE cur
          [] param_name = "risk_per_trade" ->
               IF f.ok THEN [cur EXCEPT !.risk_per_trade = f.v] ELSE cur
          [] param_name = "max_consecutive_losses" ->
               IF i.ok THEN [cur EXCEPT !.max_consecutive_losses = i.v]
                       ELSE cur
          [] param_name = "profit_target" ->
               IF f.ok THEN [cur EXCEPT !.scalp_profit_target = f.v] ELSE cur
          [] param_name = "stop_loss" ->
               IF f.ok THEN [cur EXCEPT !.scalp_stop_loss = f.v] ELSE cur
          [] OTHER -> cur

\* the route /set_size of WebInterface: "if size > 0"
WebSetSize(cur, size_str) ==
    LET size == float(size_str)
    IN  IF size.ok /\ Greater(size.v, 0)
        THEN [cur EXCEPT !.max_position_size = size.v] ELSE cur

\* a POST to /set_risk
WebSetRiskPost(param_name, value) ==
    /\ settings' = WebSetRisk(settings, param_name, value)
    /\ UNCHANGED command

\* a POST to /set_size
WebSetSizePost(size_str) ==
    /\ settings' = WebSetSize(settings, size_str)
    /\ UNCHANGED command

\* the RiskManager's state other than the settings
riskState == <<hours, daily_pnl, daily_trades_count, consecutive_losses,
               daily_start_time, daily_trade_history, risk_check, riskBook>>

(***************************************************************************)
(* ScalpingStrategy._analyze_and_trade: the two seconds it leaves between  *)
(* the trades of a pair.  One pair is looked at.                           *)
(***************************************************************************)
\* _analyze_and_trade tasks alive at a time
MaxAnalyses == 2
\* the trades that are followed
MaxScalpTrades == 2
\* "if time_since_last < 2000", in milliseconds of tradeTime
MinTradeGap == 2000
\* the tradeTime of the trade messages
TradeTimes == {0, 500, 2000, 2500}
Analyses == 1..MaxAnalyses

VARIABLES
    scalper               \* the ScalpingStrategy and its trade messages:
                          \*   market_time: the tradeTime of the last message
                          \*   analysis: the _analyze_and_trade tasks
                          \*   last_trade_time: last_trade_time of the pair
                          \*   scalp_trades: the tradeTime of every trade
                          \*     that was executed

throttleVars == <<scalper>>

NoAnalysis == [pc |-> "none", trade_time |-> 0]

\* "self.last_trade_time = {}": <<>> is a pair that is not in it
InitThrottle ==
    scalper = [market_time |-> 0,
               analysis |-> [k \in Analyses |-> NoAnalysis],
               last_trade_time |-> <<>>,
               scalp_trades |-> <<>>]

\* ScalpingStrategy._on_market_update: asyncio.create_task of one
\* _analyze_and_trade; the messages come in the order of their tradeTime
ThrottleMarketUpdate(trade_time) ==
    /\ trade_time >= scalper.market_time
    /\ is_running["scalping"] /\ trading_enabled
    /\ \E k \in Analyses :
         /\ scalper.analysis[k].pc = "none"
         /\ \A j \in Analyses : scalper.analysis[j].pc = "none" => k <= j
         /\ scalper' = [scalper EXCEPT
                          !.analysis[k] = [pc |-> "new",
                                           trade_time |-> trade_time],
                          !.market_time = trade_time]

\* "if symbol in self.last_trade_time: ... if time_since_last < 2000"
TradedRecently(last, trade_time) ==
    last # <<>> /\ trade_time - last[1] < MinTradeGap

\* _analyze_and_trade from its start to the get_klines of
\* _find_scalping_opportunity
AnalysisBegin(k) ==
    /\ scalper.analysis[k].pc = "new"
    /\ scalper' =
         [scalper EXCEPT !.analysis[k] =
            IF TradedRecently(scalper.last_trade_time, @.trade_time)
            THEN NoAnalysis ELSE [@ EXCEPT !.pc = "klines"]]

\* _find_scalping_opportunity returns: nothing to trade, or _execute_trade
\* sends the order
AnalysisOpportunity(k) ==
    /\ scalper.analysis[k].pc = "klines"
    /\ \/ scalper' = [scalper EXCEPT !.analysis[k] = NoAnalysis]
       \/ /\ Len(scalper.scalp_trades) < MaxScalpTrades
          /\ scalper' = [scalper EXCEPT
                           !.analysis[k].pc = "order",
                           !.scalp_trades =
                               Append(@, scalper.analysis[k].trade_time)]

\* _execute_trade returns: "self.last_trade_time[symbol] = trade_time"
AnalysisTraded(k) ==
    /\ scalper.analysis[k].pc = "order"
    /\ scalper' = [scalper EXCEPT
                     !.last_trade_time = <<scalper.analysis[k].trade_time>>,
                     !.analysis[k] = NoAnalysis]

(***************************************************************************)
(* RangeScalpStrategy: active_range_orders and the task that monitors each *)
(* of its entries.  One pair is looked at, so the keys are                 *)
(* "<pair>_long_at_support" and "<pair>_short_at_resistance".              *)
(***************************************************************************)
\* entry orders the exchange accepts for one key
MaxRangeOrders == 2
RangeKeys == {"long_at_support", "short_at_resistance"}

VARIABLES
    ranger                \* the RangeScalpStrategy and its orders:
                          \*   active_range_orders: its keys
                          \*   update: the awaited _on_market_update
                          \*   monitor: the _monitor_range_order task of
                          \*     each key
                          \*   status: the exchange's status of the entry
                          \*     order of a key
                          \*   placed: the entry orders accepted for each
                          \*     key so far

rangeVars == <<ranger>>

\* no task; filled is the local variable of _monitor_range_order
NoRangeMonitor == [pc |-> "none", filled |-> FALSE]

InitRange ==
    ranger = [active_range_orders |-> {},
              update |-> "none",
              monitor |-> [key \in RangeKeys |-> NoRangeMonitor],
              status |-> [key \in RangeKeys |-> "none"],
              placed |-> [key \in RangeKeys |-> 0]]

\* _on_market_update and _check_range_scalp_opportunities with a price near
\* the level of the key, up to the first await of _place_range_order; the
\* websocket handler awaits it before it takes the next message
RangeMarketUpdate(key) ==
    /\ ranger.update = "none"
    /\ trading_enabled
    /\ key \notin ranger.active_range_orders
    /\ ranger' = [ranger EXCEPT !.update = key]

\* _place_range_order after place_order: the order is tracked under its key
\* and a _monitor_range_order task is made, which runs to its get_order
RangePlaceResult ==
    /\ ranger.update # "none"
    /\ LET key == ranger.update
       IN \/ ranger' = [ranger EXCEPT !.update = "none"]
          \/ /\ ranger.placed[key] < MaxRangeOrders
             /\ ranger' =
                  [ranger EXCEPT
                     !.update = "none",
                     !.active_range_orders = @ \cup {key},
                     !.monitor[key] = [pc |-> "get_order", filled |-> FALSE],
                     !.status[key] = "NEW",
                     !.placed[key] = @ + 1]

\* the exchange ends the resting entry order of a key
RangeExchange(key, status) ==
    /\ ranger.status[key] = "NEW"
    /\ ranger' = [ranger EXCEPT !.status[key] = status]

\* _monitor_range_order with the status get_order gave: what is tracked and
\* where the task is after it
RangeAfterStatus(key, status) ==
    IF status = "FILLED"
    THEN [keys |-> ranger.active_range_orders,
          task |-> [pc |-> "exit_orders", filled |-> TRUE]]
    ELSE IF status \in {"CANCELED", "REJECTED", "EXPIRED"}
    THEN [keys |-> ranger.active_range_orders \ {key},
          task |-> NoRangeMonitor]
    ELSE [keys |-> ranger.active_range_orders,
          task |-> [ranger.monitor[key] EXCEPT !.pc = "sleep"]]

\* _monitor_range_order after get_order: it raised (the task logs and ends),
\* or it gave the status of the order
RangeMonitorPoll(key) ==
    /\ ranger.monitor[key].pc = "get_order"
    /\ \/ ranger' = [ranger EXCEPT !.monitor[key] = NoRangeMonitor]
       \/ LET after == RangeAfterStatus(key, ranger.status[key])
          IN ranger' = [ranger EXCEPT !.active_range_orders = after.keys,
                                      !.monitor[key] = after.task]

\* _place_exit_orders returns (it catches what place_order raises); the task
\* goes on to its sleep
RangeExitOrders(key) ==
    /\ ranger.monitor[key].pc = "exit_orders"
    /\ ranger' = [ranger EXCEPT !.monitor[key].pc = "sleep"]

\* after "await asyncio.sleep(2)": "while order_key in
\* self.active_range_orders and not filled"
RangeMonitorWake(key) ==
    /\ ranger.monitor[key].pc = "sleep"
    /\ ranger' =
         [ranger EXCEPT !.monitor[key] =
            IF key \in ranger.active_range_orders /\ ~@.filled
            THEN [@ EXCEPT !.pc = "get_order"] ELSE NoRangeMonitor]

(***************************************************************************)
(* TelegramBot: who may give a command.  Every handler begins with         *)
(* _is_authorized(update.effective_user.id), but for /unsubscribe.         *)
(***************************************************************************)
\* the users that write to the bot
Users == {"owner", "stranger"}
\* TelegramBot.authorized_users: the list the bot was built with
authorized_users == {"owner"}
\* the argument of /set_pairs
PairTexts == {"ethusdt", "eth"}
\* the arguments of the commands on the settings
FewParams == {"risk_per_trade", "stop_loss"}
FewTokens == {"abc", "0.05"}
FewLeverages == {"20", "200"}

VARIABLES
    bot                   \* trading_pairs: trading_pairs of the strategies
                          \* notification_users: that of the TelegramBot

botVars == <<bot>>

InitBot ==
    bot = [trading_pairs |-> <<"BTCUSDT">>, notification_users |-> {}]

_is_authorized(user_id) == user_id \in authorized_users

\* the command as the handler got it
Said(name, user_id, text) ==
    [NoCommand EXCEPT !.name = name, !.authorized = _is_authorized(user_id),
                      !.token = text, !.turn = ~command.turn]

\* TelegramBot._start_trading, _start_futures_trading
TgStartTrading(user_id, s) ==
    /\ command' = Said(IF s = "scalping" THEN "/start_trading"
                                         ELSE "/start_futures_trading",
                       user_id, "none")
    /\ IF _is_authorized(user_id) THEN StartTrading(s)
                                  ELSE UNCHANGED stratVars
    /\ UNCHANGED <<futures_leverage, botVars>>

\* TelegramBot._stop_trading, _stop_futures_trading
TgStopTrading(user_id, s) ==
    /\ command' = Said(IF s = "scalping" THEN "/stop_trading"
                                         ELSE "/stop_futures_trading",
                       user_id, "none")
    /\ IF _is_authorized(user_id) THEN StopTrading(s)
                                  ELSE UNCHANGED stratVars
    /\ UNCHANGED <<futures_leverage, botVars>>

\* pair.strip().upper()
upper(text) ==
    CASE text = "ethusdt" -> "ETHUSDT"
      [] text = "eth" -> "ETH"
      [] OTHER -> text

\* "if len(pair) >= 6 and pair.endswith('USDT')", of the pairs met here
ValidPair(pair) == pair \in {"BTCUSDT", "ETHUSDT"}

\* TelegramBot._set_trading_pairs: /set_pairs <text> with one pair
TgSetPairs(user_id, text) ==
    /\ command' = Said("/set_pairs", user_id, text)
    /\ bot' = IF _is_authorized(user_id) /\ ValidPair(upper(text))
              THEN [bot EXCEPT !.trading_pairs = <<upper(text)>>] ELSE bot
    /\ UNCHANGED futures_leverage

\* TelegramBot._subscribe_notifications
TgSubscribe(user_id) ==
    /\ command' = Said("/subscribe", user_id, "none")
    /\ bot' = IF _is_authorized(user_id)
              THEN [bot EXCEPT !.notification_users = @ \cup {user_id}]
              ELSE bot
    /\ UNCHANGED futures_leverage

\* an unsubscribe that empties the set
DiscardAll(users, user_id) == {}

\* "self.notification_users.discard(user_id)"
Discard(users, user_id) == users \ {user_id}

\* TelegramBot._unsubscribe_notifications: it does not ask _is_authorized
TgUnsubscribe(user_id) ==
    /\ command' = Said("/unsubscribe", user_id, "none")
    /\ bot' = [bot EXCEPT !.notification_users = Discard(@, user_id)]
    /\ UNCHANGED futures_leverage

(***************************************************************************)
(* MXCClient._rate_limit_check, which _make_request calls before every     *)
(* request.  It is synchronous, its time.sleep included.  Time is in       *)
(* tenths of a second.                                                     *)
(***************************************************************************)
\* "self.rate_limit_window = 10", seconds, in tenths
rate_limit_window == 100
\* "self.rate_limit_count = 500"
rate_limit_count == 500
\* the last time looked at
MaxClientTime == 400
\* how far time moves between two requests
ClientSteps == {50, 101}

VARIABLES
    limiter               \* MXCClient's limiter:
                          \*   time: time.time()
                          \*   last_request_time, request_count: its fields
                          \*   issued: the requests issued since
                          \*     last_request_time was set, the one that set
                          \*     it included

clientVars == <<limiter>>

\* time.time() is far from 0 when the client is built
InitClient ==
    limiter = [time |-> rate_limit_window + 1, last_request_time |-> 0,
               request_count |-> 0, issued |-> 0]

ClientTick(d) ==
    /\ limiter.time + d <= MaxClientTime
    /\ limiter' = [limiter EXCEPT !.time = @ + d]

\* _rate_limit_check and the request that follows it
RateLimitCheck ==
    LET current_time == limiter.time
        woken == limiter.last_request_time + rate_limit_window + 1
    IN  IF current_time - limiter.last_request_time > rate_limit_window
        THEN limiter' = [limiter EXCEPT !.last_request_time = current_time,
                                        !.request_count = 0,
                                        !.issued = 1]
        ELSE IF limiter.request_count >= rate_limit_count
        THEN \* time.sleep((window - (current_time - last)) + 0.1)
             /\ woken <= MaxClientTime
             /\ limiter' = [time |-> woken, last_request_time |-> woken,
                            request_count |-> 1, issued |-> 1]
        ELSE limiter' = [limiter EXCEPT !.request_count = @ + 1,
                                        !.issued = @ + 1]

(***************************************************************************)
(* The variables of the parts above that no other part reads.              *)
(***************************************************************************)
partVars == <<throttleVars, rangeVars, botVars, clientVars>>
\* and what a step of one of the parts leaves alone of the others
notThrottle == <<rangeVars, botVars, clientVars>>
notRange == <<throttleVars, botVars, clientVars>>
notBot == <<throttleVars, rangeVars, clientVars>>
notClient == <<throttleVars, rangeVars, botVars>>

InitParts ==
    /\ InitThrottle
    /\ InitRange
    /\ InitBot
    /\ InitClient

(***************************************************************************)
(* The specifications.                                                     *)
(***************************************************************************)
vars == <<omVars, stratVars, riskVars, tgVars, partVars>>

\* The bot as main.py builds it: the strategies place their orders with
\* MXCClient themselves; no OrderManager call and no RiskManager call is on
\* any of their paths.
Init ==
    /\ InitOrderManager("MXCClient")
    /\ InitStrategies
    /\ InitRisk
    /\ InitTelegram
    /\ InitParts

Next ==
    \/ \E s \in Strategies : start(s) /\ UNCHANGED <<omVars, riskVars, tgVars, partVars>>
    \/ \E s \in Strategies : stop(s) /\ UNCHANGED <<omVars, riskVars, tgVars, partVars>>
    \/ \E s \in Strategies : StartTrading(s) /\ UNCHANGED <<omVars, riskVars, tgVars, partVars>>
    \/ \E s \in Strategies : StopTrading(s) /\ UNCHANGED <<omVars, riskVars, tgVars, partVars>>
    \/ \E p \in MarketPrices : MarketUpdate(p) /\ UNCHANGED <<omVars, riskVars, tgVars, partVars>>
    \/ \E k \in ScalpTasks : ScalpAnalyze(k) /\ UNCHANGED <<omVars, riskVars, tgVars, partVars>>
    \/ \E k \in ScalpTasks : ScalpEntryResult(k) /\ UNCHANGED <<omVars, riskVars, tgVars, partVars>>
    \/ FuturesAnalyze /\ UNCHANGED <<omVars, riskVars, tgVars, partVars>>
    \/ FuturesEntryResult /\ UNCHANGED <<omVars, riskVars, tgVars, partVars>>
    \/ \E m \in EntryIds : MonitorTicker(m) /\ UNCHANGED <<omVars, riskVars, tgVars, partVars>>
    \/ \E m \in EntryIds : MonitorCloseResult(m) /\ UNCHANGED <<omVars, riskVars, tgVars, partVars>>
    \/ \E m \in EntryIds : MonitorWake(m) /\ UNCHANGED <<omVars, riskVars, tgVars, partVars>>
    \/ \E e \in EntryIds : EntryFill(e) /\ UNCHANGED <<omVars, riskVars, tgVars, partVars>>

Spec == Init /\ [][Next]_vars

\* The bot after both strategies were started with trading enabled, on an
\* exchange that accepts MaxMonitored entry orders and answers every later
\* one with an error body; nobody stops a strategy.
InitMonitor ==
    /\ InitOrderManager("MXCClient")
    /\ is_running = [s \in Strategies |-> TRUE]
    /\ trading_enabled = TRUE
    /\ analyze_task = [k \in ScalpTasks |-> NoTask]
    /\ futures_update = NoTask
    /\ scalp_positions = {}
    /\ futures_positions = [d \in FutSides |-> 0]
    /\ monitor = [e \in EntryIds |-> NoMonitor]
    /\ metrics = [total_trades |-> 0, total_profit |-> 0, win_count |-> 0,
                  loss_count |-> 0, profit_history |-> <<>>]
    /\ entry_status = [e \in EntryIds |-> "none"]
    /\ InitRisk
    /\ settings.max_consecutive_losses = 5
    /\ InitTelegram
    /\ InitParts

NextMonitor ==
    \/ \E p \in MarketPrices : MarketUpdate(p) /\ UNCHANGED <<omVars, riskVars, tgVars, partVars>>
    \/ \E k \in ScalpTasks : ScalpAnalyze(k) /\ UNCHANGED <<omVars, riskVars, tgVars, partVars>>
    \/ \E k \in ScalpTasks :
         /\ ScalpEntryResult(k)
         /\ Cardinality(Entered') <= MaxMonitored
         /\ UNCHANGED <<omVars, riskVars, tgVars, partVars>>
    \/ FuturesAnalyze /\ UNCHANGED <<omVars, riskVars, tgVars, partVars>>
    \/ /\ FuturesEntryResult
       /\ Cardinality(Entered') <= MaxMonitored
       /\ UNCHANGED <<omVars, riskVars, tgVars, partVars>>
    \/ \E m \in EntryIds : MonitorTicker(m) /\ UNCHANGED <<omVars, riskVars, tgVars, partVars>>
    \/ \E m \in EntryIds : MonitorCloseResult(m) /\ UNCHANGED <<omVars, riskVars, tgVars, partVars>>
    \/ \E m \in EntryIds : MonitorWake(m) /\ UNCHANGED <<omVars, riskVars, tgVars, partVars>>
    \/ \E e \in EntryIds : EntryFill(e) /\ UNCHANGED <<omVars, riskVars, tgVars, partVars>>

SpecMonitor == InitMonitor /\ [][NextMonitor]_vars

\* a step of the position monitor m
MonitorStep(m) ==
    /\ MonitorTicker(m) \/ MonitorCloseResult(m) \/ MonitorWake(m)
    /\ UNCHANGED <<omVars, riskVars, tgVars, partVars>>

\* The started strategies with /stop_trading and the stop routes of the web
\* interface: a strategy is stopped and the bot runs on.  The event loop
\* resumes every task whose await has ended, so no monitor waits for ever
\* for its next step.
NextStopped ==
    \/ NextMonitor
    \/ \E s \in Strategies : stop(s) /\ UNCHANGED <<omVars, riskVars, tgVars, partVars>>

SpecStopped ==
    /\ InitMonitor
    /\ [][NextStopped]_vars
    /\ \A m \in EntryIds : WF_vars(MonitorStep(m))

\* The OrderManager over a gateway that accepts its calls; time is seen at
\* whole seconds.
InitOM ==
    /\ InitOrderManager("accepting")
    /\ InitStrategies
    /\ trading_enabled = FALSE
    /\ InitRisk
    /\ InitTelegram
    /\ InitParts
    /\ settings.max_consecutive_losses = 5

NextOM ==
    \/ Tick(TicksPerSecond) /\ UNCHANGED <<stratVars, riskVars, tgVars, partVars>>
    \/ ExchangeProgress /\ UNCHANGED <<stratVars, riskVars, tgVars, partVars>>
    \/ \E t \in Tasks : PlaceOrderCall(t) /\ UNCHANGED <<stratVars, riskVars, tgVars, partVars>>
    \/ \E t \in Tasks : PlaceOrderResponse(t) /\ UNCHANGED <<stratVars, riskVars, tgVars, partVars>>
    \/ \E t \in Tasks : CancelOrderCall(t) /\ UNCHANGED <<stratVars, riskVars, tgVars, partVars>>
    \/ \E t \in Tasks : CancelOrderResponse(t) /\ UNCHANGED <<stratVars, riskVars, tgVars, partVars>>
    \/ \E t \in Tasks : RateLimitWake(t) /\ UNCHANGED <<stratVars, riskVars, tgVars, partVars>>
    \/ \E t \in Tasks : RefreshCall(t) /\ UNCHANGED <<stratVars, riskVars, tgVars, partVars>>
    \/ \E t \in Tasks : RefreshAnswer(t) /\ UNCHANGED <<stratVars, riskVars, tgVars, partVars>>
    \/ \E t \in Tasks : RefreshResponse(t) /\ UNCHANGED <<stratVars, riskVars, tgVars, partVars>>

SpecOM == InitOM /\ [][NextOM]_vars

\* The OrderManager under callers of place_order and cancel_all_orders.
NextCancelAll ==
    \/ Tick(TicksPerSecond) /\ UNCHANGED <<stratVars, riskVars, tgVars, partVars>>
    \/ ExchangeProgress /\ UNCHANGED <<stratVars, riskVars, tgVars, partVars>>
    \/ \E t \in Tasks : PlaceOrderCall(t) /\ UNCHANGED <<stratVars, riskVars, tgVars, partVars>>
    \/ \E t \in Tasks : PlaceOrderResponse(t) /\ UNCHANGED <<stratVars, riskVars, tgVars, partVars>>
    \/ \E t \in Tasks : RateLimitWake(t) /\ UNCHANGED <<stratVars, riskVars, tgVars, partVars>>
    \/ \E t \in Tasks : CancelAllCall(t) /\ UNCHANGED <<stratVars, riskVars, tgVars, partVars>>
    \/ \E t \in Tasks : CancelAllWake(t) /\ UNCHANGED <<stratVars, riskVars, tgVars, partVars>>
    \/ \E t \in Tasks : CancelAllResponse(t) /\ UNCHANGED <<stratVars, riskVars, tgVars, partVars>>

SpecCancelAll == InitOM /\ [][NextCancelAll]_vars

\* One caller of cancel_all_orders and one other coroutine that places and
\* cancels orders.
NextSnapshot ==
    \/ Tick(TicksPerSecond) /\ UNCHANGED <<stratVars, riskVars, tgVars, partVars>>
    \/ PlaceOrderCall(NumCallers) /\ UNCHANGED <<stratVars, riskVars, tgVars, partVars>>
    \/ PlaceOrderResponse(NumCallers) /\ UNCHANGED <<stratVars, riskVars, tgVars, partVars>>
    \/ CancelOrderCall(NumCallers) /\ UNCHANGED <<stratVars, riskVars, tgVars, partVars>>
    \/ CancelOrderResponse(NumCallers) /\ UNCHANGED <<stratVars, riskVars, tgVars, partVars>>
    \/ RateLimitWake(NumCallers) /\ UNCHANGED <<stratVars, riskVars, tgVars, partVars>>
    \/ CancelAllCall(1) /\ UNCHANGED <<stratVars, riskVars, tgVars, partVars>>
    \/ CancelAllWake(1) /\ UNCHANGED <<stratVars, riskVars, tgVars, partVars>>
    \/ CancelAllResponse(1) /\ UNCHANGED <<stratVars, riskVars, tgVars, partVars>>

SpecSnapshot == InitOM /\ [][NextSnapshot]_vars

\* Callers of place_order, with and without an amount.
NextPlace ==
    \/ Tick(TicksPerSecond) /\ UNCHANGED <<stratVars, riskVars, tgVars, partVars>>
    \/ \E t \in Callers : PlaceOrderCall(t) /\ UNCHANGED <<stratVars, riskVars, tgVars, partVars>>
    \/ \E t \in Callers : PlaceOrderBare(t) /\ UNCHANGED <<stratVars, riskVars, tgVars, partVars>>
    \/ \E t \in Callers : PlaceOrderResponse(t) /\ UNCHANGED <<stratVars, riskVars, tgVars, partVars>>
    \/ \E t \in Callers : RateLimitWake(t) /\ UNCHANGED <<stratVars, riskVars, tgVars, partVars>>

SpecPlace == InitOM /\ [][NextPlace]_vars

\* The OrderManager under a caller of place_order and concurrent callers of
\* refresh_active_orders.
NextRefresh ==
    \/ Tick(TicksPerSecond) /\ UNCHANGED <<stratVars, riskVars, tgVars, partVars>>
    \/ ExchangeProgress /\ UNCHANGED <<stratVars, riskVars, tgVars, partVars>>
    \/ \E t \in Tasks : PlaceOrderCall(t) /\ UNCHANGED <<stratVars, riskVars, tgVars, partVars>>
    \/ \E t \in Tasks : PlaceOrderResponse(t) /\ UNCHANGED <<stratVars, riskVars, tgVars, partVars>>
    \/ \E t \in Tasks : RateLimitWake(t) /\ UNCHANGED <<stratVars, riskVars, tgVars, partVars>>
    \/ \E t \in Callers : RefreshCall(t) /\ UNCHANGED <<stratVars, riskVars, tgVars, partVars>>
    \/ \E t \in Callers : RefreshAnswer(t) /\ UNCHANGED <<stratVars, riskVars, tgVars, partVars>>
    \/ \E t \in Callers : RefreshResponse(t) /\ UNCHANGED <<stratVars, riskVars, tgVars, partVars>>

SpecRefresh == InitOM /\ [][NextRefresh]_vars

\* The rate limiter under the load of place_order and cancel_order callers of
\* the OrderManager built with MXCClient, which is what the type of its
\* constructor asks for; time is seen at every tick.
InitRL ==
    /\ Init
    /\ trading_enabled = FALSE
    /\ settings.max_consecutive_losses = 5

NextRL ==
    \/ Tick(1) /\ UNCHANGED <<stratVars, riskVars, tgVars, partVars>>
    \/ \E t \in Callers : PlaceOrderCall(t) /\ UNCHANGED <<stratVars, riskVars, tgVars, partVars>>
    \/ \E t \in Callers : CancelOrderCall(t) /\ UNCHANGED <<stratVars, riskVars, tgVars, partVars>>
    \/ \E t \in Callers : CancelOrderResponse(t) /\ UNCHANGED <<stratVars, riskVars, tgVars, partVars>>
    \/ \E t \in Callers : RateLimitWake(t) /\ UNCHANGED <<stratVars, riskVars, tgVars, partVars>>

SpecRL == InitRL /\ [][NextRL]_vars

\* The RiskManager under calls of check_risk_limits and record_trade.
NextRisk ==
    \/ \E size \in CheckSizes, price \in CheckPrices :
         CheckRiskLimits(size, price) /\ UNCHANGED <<omVars, stratVars, tgVars, partVars>>
    \/ CheckBalanceResult /\ UNCHANGED <<omVars, stratVars, tgVars, partVars>>
    \/ \E profit \in RiskProfits :
         RiskRecordTrade(profit) /\ UNCHANGED <<omVars, stratVars, tgVars, partVars>>
    \/ \E d \in HourSteps : HoursPass(d) /\ UNCHANGED <<omVars, stratVars, tgVars, partVars>>

InitRiskManager ==
    /\ Init
    /\ trading_enabled = FALSE

SpecRisk == InitRiskManager /\ [][NextRisk]_vars

\* The leverage commands alone, in any order, on a bot that does not trade
NextLeverage ==
    \/ \E v \in LeverageValues :
         set_leverage(v) /\ UNCHANGED <<omVars, stratVars, riskVars, partVars>>
    \/ \E a \in BOOLEAN, tok \in LeverageTokens :
         TgSetLeverage(a, tok) /\ UNCHANGED <<omVars, stratVars, riskVars, partVars>>

SpecLeverage == InitRiskManager /\ [][NextLeverage]_vars

\* The commands on the settings alone, in any order, on a bot that does not
\* trade
NextTelegram ==
    \/ \E a \in BOOLEAN, name \in RiskParams, tok \in RiskTokens :
         TgSetRisk(a, name, tok)
         /\ UNCHANGED <<omVars, stratVars, riskState, futures_leverage, partVars>>
    \/ \E a \in BOOLEAN, tok \in RiskTokens :
         TgSetSize(a, tok)
         /\ UNCHANGED <<omVars, stratVars, riskState, futures_leverage, partVars>>

SpecTelegram == InitRiskManager /\ [][NextTelegram]_vars

\* check_risk_limits on the event loop that also handles /set_size: a
\* command is handled whenever the check is not running, its await of
\* get_balance included
NextRiskConfig ==
    \/ \E size \in CheckSizes, price \in CheckPrices :
         CheckRiskLimits(size, price) /\ UNCHANGED <<omVars, stratVars, tgVars, partVars>>
    \/ CheckBalanceResult /\ UNCHANGED <<omVars, stratVars, tgVars, partVars>>
    \/ \E a \in BOOLEAN, tok \in RiskTokens :
         TgSetSize(a, tok)
         /\ UNCHANGED <<omVars, stratVars, riskState, futures_leverage, partVars>>

SpecRiskConfig == InitRiskManager /\ [][NextRiskConfig]_vars

\* the arguments of the calls below
BookProfits == {-5000, 5000}
BookSizes == {1}
BookPrices == {8000}

\* Every method of the RiskManager, called in any order.
NextRiskBook ==
    \/ \E size \in BookSizes, price \in BookPrices :
         CheckRiskLimits(size, price) /\ UNCHANGED <<omVars, stratVars, tgVars, partVars>>
    \/ CheckBalanceResult /\ UNCHANGED <<omVars, stratVars, tgVars, partVars>>
    \/ \E profit \in BookProfits :
         RiskRecordTrade(profit) /\ UNCHANGED <<omVars, stratVars, tgVars, partVars>>
    \/ \E d \in HourSteps : HoursPass(d) /\ UNCHANGED <<omVars, stratVars, tgVars, partVars>>
    \/ GetRiskStatus /\ UNCHANGED <<omVars, stratVars, tgVars, partVars>>
    \/ \E size \in BookSizes, side \in ScalpSides, price \in BookPrices :
         UpdatePosition(size, side, price) /\ UNCHANGED <<omVars, stratVars, tgVars, partVars>>
    \/ RemovePosition /\ UNCHANGED <<omVars, stratVars, tgVars, partVars>>

SpecRiskBook == InitRiskManager /\ [][NextRiskBook]_vars

\* The settings under the commands of Telegram and the forms of the web
\* interface that write them.
NextSettings ==
    \/ \E name \in WebParams, tok \in WebTokens :
         /\ WebSetRiskPost(name, tok)
         /\ UNCHANGED <<omVars, stratVars, riskState, futures_leverage, partVars>>
    \/ \E tok \in WebTokens \cup {"nan"} :
         /\ WebSetSizePost(tok)
         /\ UNCHANGED <<omVars, stratVars, riskState, futures_leverage, partVars>>
    \/ \E a \in BOOLEAN, name \in WebParams, tok \in WebTokens :
         /\ TgSetRisk(a, name, tok)
         /\ UNCHANGED <<omVars, stratVars, riskState, futures_leverage, partVars>>
    \/ \E a \in BOOLEAN, tok \in WebTokens \cup {"nan"} :
         /\ TgSetSize(a, tok)
         /\ UNCHANGED <<omVars, stratVars, riskState, futures_leverage, partVars>>

SpecSettings == InitRiskManager /\ [][NextSettings]_vars

\* what a step of one part leaves alone
others == <<omVars, stratVars, riskVars, tgVars>>

\* The running scalping strategy under a stream of trade messages.
NextThrottle ==
    \/ \E trade_time \in TradeTimes :
         ThrottleMarketUpdate(trade_time) /\ UNCHANGED <<others, notThrottle>>
    \/ \E k \in Analyses : AnalysisBegin(k) /\ UNCHANGED <<others, notThrottle>>
    \/ \E k \in Analyses :
         AnalysisOpportunity(k) /\ UNCHANGED <<others, notThrottle>>
    \/ \E k \in Analyses : AnalysisTraded(k) /\ UNCHANGED <<others, notThrottle>>

SpecThrottle == InitMonitor /\ [][NextThrottle]_vars

\* The running range strategy, its monitors and the exchange.
NextRange ==
    \/ \E key \in RangeKeys :
         RangeMarketUpdate(key) /\ UNCHANGED <<others, notRange>>
    \/ RangePlaceResult /\ UNCHANGED <<others, notRange>>
    \/ \E key \in RangeKeys, status \in Terminal :
         RangeExchange(key, status) /\ UNCHANGED <<others, notRange>>
    \/ \E key \in RangeKeys :
         RangeMonitorPoll(key) /\ UNCHANGED <<others, notRange>>
    \/ \E key \in RangeKeys :
         RangeExitOrders(key) /\ UNCHANGED <<others, notRange>>
    \/ \E key \in RangeKeys :
         RangeMonitorWake(key) /\ UNCHANGED <<others, notRange>>

SpecRange == InitMonitor /\ [][NextRange]_vars

\* The commands of Telegram that write something, from both users, in any
\* order.
NextBot ==
    \/ \E user_id \in Users, s \in Strategies :
         TgStartTrading(user_id, s) /\ UNCHANGED <<omVars, riskVars, notBot>>
    \/ \E user_id \in Users, s \in Strategies :
         TgStopTrading(user_id, s) /\ UNCHANGED <<omVars, riskVars, notBot>>
    \/ \E user_id \in Users, text \in PairTexts :
         /\ TgSetPairs(user_id, text)
         /\ UNCHANGED <<omVars, stratVars, riskVars, notBot>>
    \/ \E user_id \in Users :
         TgSubscribe(user_id) /\ UNCHANGED <<omVars, stratVars, riskVars, notBot>>
    \/ \E user_id \in Users :
         /\ TgUnsubscribe(user_id)
         /\ UNCHANGED <<omVars, stratVars, riskVars, notBot>>
    \/ \E user_id \in Users, tok \in FewLeverages :
         /\ TgSetLeverage(_is_authorized(user_id), tok)
         /\ UNCHANGED <<omVars, stratVars, riskVars, partVars>>
    \/ \E user_id \in Users, name \in FewParams, tok \in FewTokens :
         /\ TgSetRisk(_is_authorized(user_id), name, tok)
         /\ UNCHANGED <<omVars, stratVars, riskState, futures_leverage, partVars>>
    \/ \E user_id \in Users, tok \in FewTokens :
         /\ TgSetSize(_is_authorized(user_id), tok)
         /\ UNCHANGED <<omVars, stratVars, riskState, futures_leverage, partVars>>

SpecBot == InitRiskManager /\ [][NextBot]_vars

\* The requests of MXCClient as time passes.
NextClient ==
    \/ \E d \in ClientSteps : ClientTick(d) /\ UNCHANGED <<others, notClient>>
    \/ RateLimitCheck /\ UNCHANGED <<others, notClient>>

SpecClient == InitRiskManager /\ [][NextClient]_vars

(***************************************************************************)
(* Properties of the OrderManager.                                         *)
(***************************************************************************)
RECURSIVE SumAdmitted(_)
\* the callers admitted at the ages 0..a
SumAdmitted(a) == IF a < 0 THEN 0 ELSE admitted[a] + SumAdmitted(a - 1)

\* the callers _enforce_rate_limit has admitted within the last second
AdmittedInWindow == SumAdmitted(TicksPerSecond - 1)

\* C1: with concurrent callers of place_order and cancel_order, at most
\* max_orders_per_second calls are admitted in any rolling window of one
\* second.
AtMostNPerWindow == AdmittedInWindow <= max_orders_per_second

\* C8: a place_order that fails (the gateway raised, or answered without an
\* order id, so that no order came into being) leaves active_orders exactly
\* as it was.
FailedPlaceKeepsOrders ==
    [][\A t \in Tasks :
         (/\ task[t].pc = "place_req"
          /\ task'[t].pc # "place_req"
          /\ exchange' = exchange) => active_orders' = active_orders]_vars

\* a place_order has failed while an order was tracked
FailedPlaceSeen == last_place = "failed" /\ Tracked # {}

\* C9: an order is in active_orders only while its last known status is NEW
\* or PARTIALLY_FILLED; an order whose placement response already reports a
\* terminal status is not left tracked.
TrackedOrdersAreOpen ==
    \A i \in OrderIds :
       active_orders[i] # "NONE" => active_orders[i] \in NonTerminal

(***************************************************************************)
(* Properties of the strategies and their monitors.                        *)
(***************************************************************************)
\* check_risk_limits was evaluated for a trade of this size and price and
\* returned allowed
RiskAllowed(size, price) ==
    /\ risk_check.pc = "done"
    /\ risk_check.allowed
    /\ risk_check.size = size
    /\ risk_check.price = price

\* C2: no entry order is sent to the exchange unless check_risk_limits was
\* evaluated for that trade and returned allowed.
EntryBehindRiskGate ==
    /\ \A k \in ScalpTasks :
         analyze_task[k].pc = "entry" =>
            RiskAllowed(analyze_task[k].size,
                        ScalpTarget(analyze_task[k].side, analyze_task[k].price))
    /\ futures_update.pc = "entry" =>
         RiskAllowed(futures_update.size, futures_update.price)

\* the order requests of the strategies the exchange has not answered yet
OrderRequests ==
    Cardinality({k \in ScalpTasks : analyze_task[k].pc = "entry"})
    + (IF futures_update.pc = "entry" THEN 1 ELSE 0)
    + Cardinality({m \in EntryIds : monitor[m].pc = "closing"})

\* C3: every order request sent to the exchange, the entries of the
\* strategies and the closes of the monitors included, has first been
\* admitted by the rate limiter of the OrderManager.
OrdersThroughRateLimiter ==
    [][OrderRequests' > OrderRequests => admitted'[0] > admitted[0]]_vars

Live(m) == monitor[m].pc \in {"ticker", "closing", "sleep"}

\* the live monitors that watch the key of an open futures position
Watching(side) ==
    {m \in EntryIds : /\ monitor[m].strategy = "futures"
                      /\ monitor[m].position.side = side
                      /\ Live(m)}

\* C4: while a position is in the active-position map of its strategy, a
\* monitor of it is alive, whatever price read or close order has failed.
TrackedPositionIsMonitored ==
    /\ \A id \in scalp_positions : Live(id)
    /\ \A side \in FutSides : _has_position(side) => Watching(side) # {}

\* C5: two monitor tasks never watch the same position key, and so never
\* both place a closing order for it.
OneMonitorPerKey ==
    /\ \A side \in FutSides : Cardinality(Watching(side)) <= 1
    /\ \A m1, m2 \in EntryIds :
         (/\ m1 # m2
          /\ monitor[m1].strategy = "scalping"
          /\ monitor[m2].strategy = "scalping"
          /\ Live(m1) /\ Live(m2))
         => monitor[m1].position.order_id # monitor[m2].position.order_id

\* the positions the strategies hold in their active-position maps
OpenPositions ==
    Cardinality(scalp_positions)
    + Cardinality({side \in FutSides : _has_position(side)})

\* C6: a position leaves the active-position map as closed with exactly one
\* record_trade, and every record_trade is the close of one position of the
\* map, after which the monitor has come to its end.
OneRecordPerClose ==
    [][/\ (metrics'.total_trades # metrics.total_trades
             <=> OpenPositions' = OpenPositions - 1)
       /\ metrics'.total_trades \in
             {metrics.total_trades, metrics.total_trades + 1}
       /\ \A m \in EntryIds :
            (monitor[m].pc = "closing" /\ metrics' # metrics
               /\ monitor'[m] # monitor[m]) => ~Live(m)']_vars

\* C7: once a strategy is stopped none of its monitors sends a new order.
NoOrderAfterStop ==
    [][\A m \in EntryIds :
         (monitor[m].pc # "closing" /\ monitor'[m].pc = "closing")
            => is_running[monitor[m].strategy]]_vars

(***************************************************************************)
(* Properties of the RiskManager.                                          *)
(***************************************************************************)
\* C10: check_risk_limits looks at the daily loss, then the consecutive
\* losses, then the position size, then the balance; the first check that
\* fails decides the reason, and when one of the first three fails the
\* answer is not allowed and the balance was not read.
ChecksInOrder ==
    risk_check.pc = "done" =>
       LET c == risk_check
           daily == c.seen_pnl <= -abs(settings.max_daily_loss)
           losses == c.seen_losses >= settings.max_consecutive_losses
           large == c.size * c.price > settings.max_position_size
       IN  /\ daily =>
                c.reason = "daily_loss" /\ ~c.allowed /\ ~c.balance_read
           /\ (~daily /\ losses) =>
                c.reason = "consecutive_losses" /\ ~c.allowed
                   /\ ~c.balance_read
           /\ (~daily /\ ~losses /\ large) =>
                c.reason = "position_size" /\ ~c.allowed /\ ~c.balance_read
           /\ (~daily /\ ~losses /\ ~large) =>
                /\ c.balance_read
                /\ c.reason \in {"balance_error", "insufficient_balance",
                                 "passed"}
                /\ c.allowed <=> c.reason = "passed"
                /\ c.reason = "insufficient_balance" =>
                      c.balance < c.size * c.price
                /\ c.reason = "passed" => c.balance >= c.size * c.price

\* a check with the daily loss at -101 against a limit of 100, for a trade
\* that is also too large, has answered
DailyLossDecided ==
    /\ risk_check.pc = "done"
    /\ risk_check.seen_pnl = -101000
    /\ settings.max_daily_loss = 100000
    /\ risk_check.size * risk_check.price > settings.max_position_size
    /\ risk_check.reason = "daily_loss"

Recorded == Len(daily_trade_history') = Len(daily_trade_history) + 1
RecordedProfit == daily_trade_history'[Len(daily_trade_history')]

\* C12: record_trade with a profit resets consecutive_losses to 0 whatever it
\* was, with a loss it adds exactly 1 to it; it adds the profit to daily_pnl
\* and 1 to daily_trades_count.
RecordUpdatesStats ==
    [][Recorded =>
         /\ RecordedProfit > 0 => consecutive_losses' = 0
         /\ RecordedProfit < 0 => consecutive_losses' = consecutive_losses + 1
         /\ daily_pnl' = daily_pnl + RecordedProfit
         /\ daily_trades_count' = daily_trades_count + 1]_vars

\* a profit was recorded on a streak of two losses, and the streak is gone
ProfitEndedStreak ==
    /\ Len(daily_trade_history) = 3
    /\ daily_trade_history[1] < 0
    /\ daily_trade_history[2] < 0
    /\ daily_trade_history[3] > 0
    /\ consecutive_losses = 0

\* C13: record_trade with a profit of exactly zero does not lengthen the loss
\* streak.
ZeroProfitIsNoLoss ==
    [][(Recorded /\ RecordedProfit = 0)
          => consecutive_losses' <= consecutive_losses]_vars

\* a profit of zero was recorded right after a loss
ZeroAfterLoss ==
    /\ Len(daily_trade_history) = 2
    /\ daily_trade_history[1] < 0
    /\ daily_trade_history[2] = 0
    /\ consecutive_losses = 0

\* C14: once a day has passed since daily_start_time, the next record_trade
\* (as the next check_risk_limits) first resets the daily statistics and
\* restarts the day: the outcome is not added to the totals of the day before.
RolloverBeforeRecord ==
    [][(Recorded /\ DayOver) =>
         /\ daily_pnl' = RecordedProfit
         /\ daily_trades_count' = 1
         /\ daily_trade_history' = <<RecordedProfit>>
         /\ daily_start_time' = hours]_vars

\* the exit conditions as the claims state them, a BUY or LONG position
\* being long and a SELL or SHORT position short
IsLong(position) == position.side \in {"BUY", "LONG"}
TakeProfit(position, price) ==
    \/ IsLong(position) /\ price >= position.target_price
    \/ ~IsLong(position) /\ price <= position.target_price
StopLoss(position, price) ==
    \/ IsLong(position) /\ price <= position.stop_price
    \/ ~IsLong(position) /\ price >= position.stop_price

\* C15: a monitor goes AWAITING_FILL -> OPEN -> CLOSING -> CLOSED and skips
\* no state: it evaluates its exits and sends its close only for an entry
\* order that has been filled.
ExitsOnlyAfterFill ==
    \A m \in EntryIds :
       monitor[m].pc = "closing" => entry_status[m] = "FILLED"

\* the monitor m has just been answered by get_ticker_24hr with a price
Polled(m) ==
    /\ monitor[m].pc = "ticker"
    /\ monitor'[m].pc \in {"closing", "sleep"}

\* C16: on a poll the monitor sends a close if and only if the polled price is
\* at or beyond the target (take-profit) or at or beyond the stop (stop-loss),
\* and the close is a MARKET order on the opposite side for the full quantity.
CloseIffTriggered ==
    [][\A m \in EntryIds :
         Polled(m) =>
            LET position == monitor[m].position
                price == monitor'[m].current_price
            IN /\ monitor'[m].pc = "closing" <=>
                     (TakeProfit(position, price) \/ StopLoss(position, price))
               /\ monitor'[m].pc = "closing" =>
                     monitor'[m].close_order =
                        [side |-> IF IsLong(position) THEN "SELL" ELSE "BUY",
                         order_type |-> "MARKET",
                         quantity |-> position.size]]_vars

\* a short position is being closed at its stop or above by a MARKET BUY
ShortStoppedByBuy ==
    \E m \in EntryIds :
       /\ monitor[m].pc = "closing"
       /\ ~IsLong(monitor[m].position)
       /\ monitor[m].current_price >= monitor[m].position.stop_price
       /\ monitor[m].close_order.side = "BUY"
       /\ monitor[m].close_order.order_type = "MARKET"

\* the price of the market when the scalping position m was entered: the
\* current_price its target was computed from
EnteredAt(m) ==
    CHOOSE p \in MarketPrices :
       monitor[m].position.target_price =
          ScalpTarget(monitor[m].position.side, p)

\* the monitor m has just recorded the trade of its close
CloseRecorded(m) ==
    /\ monitor[m].pc = "closing"
    /\ monitor'[m].pc \in {"closed", "crashed"}
    /\ Len(metrics'.profit_history) = Len(metrics.profit_history) + 1

\* C17: the profit recorded for a closed scalping position is
\* (exit - entry) * quantity for a long and (entry - exit) * quantity for a
\* short, entry being the price at which the position was entered.
ProfitFromEntryPrice ==
    [][\A m \in EntryIds :
         (CloseRecorded(m) /\ monitor[m].strategy = "scalping") =>
            LET position == monitor[m].position
                exit == monitor[m].current_price
                profit == metrics'.profit_history[Len(metrics'.profit_history)]
            IN profit = IF IsLong(position)
                        THEN (exit - EnteredAt(m)) * position.size
                        ELSE (EnteredAt(m) - exit) * position.size]_vars

\* a caller is suspended by _enforce_rate_limit in this step
Suspended(t) == task[t].pc # "sleep" /\ task'[t].pc = "sleep"

\* _enforce_rate_limit returns to a caller in this step
Acquired == clock' = clock /\ admitted'[0] = admitted[0] + 1

\* a caller waits only when max_orders_per_second acquisitions are within
\* the window
NoWaitBelowLimit ==
    \A t \in Callers :
       Suspended(t) => AdmittedInWindow >= max_orders_per_second

\* no acquisition returns while max_orders_per_second are within the window
NoReturnAtLimit ==
    Acquired => AdmittedInWindow < max_orders_per_second

\* C19: while at most max_orders_per_second acquisitions fall within one
\* window none of them waits, and one more acquisition within the same window
\* does not return before the window has rolled over.
WaitsExactlyAtLimit == [][NoWaitBelowLimit /\ NoReturnAtLimit]_vars

\* cancel_order ends for the caller t in this step and order i, tracked as
\* open before, is not tracked after
RemovedByCancel(t, i) ==
    /\ task[t].pc = "cancel_req"
    /\ task'[t].pc # "cancel_req"
    /\ active_orders[i] \in NonTerminal
    /\ active_orders'[i] = "NONE"

\* C20: cancel_order removes a tracked order only when the gateway confirms
\* the cancellation: an order the gateway reports as FILLED (the cancel came
\* after the fill) is not removed as cancelled, and a failed cancel removes
\* nothing.
CancelRemovesOnlyCancelled ==
    [][\A t \in Tasks, i \in OrderIds :
         RemovedByCancel(t, i) => exchange'[i] = "CANCELED"]_vars

\* C21: a cancel_all_orders in which some cancellation failed gives its
\* caller an error that tells which orders remain open.
CancelAllReportsFailures ==
    \A t \in Tasks :
       (cancel_all[t].returned \notin {"none", "running"}
        /\ cancel_all[t].failed # {}) => cancel_all[t].returned # "None"

\* how far a status is on the way NEW, PARTIALLY_FILLED, terminal
StatusRank(st) ==
    IF st = "NEW" THEN 0 ELSE IF st = "PARTIALLY_FILLED" THEN 1 ELSE 2

\* C22: the recorded status of a tracked order never moves backwards, and an
\* order that is on the exchange and no longer tracked does not become
\* tracked again.
StatusNeverRegresses ==
    [][\A i \in OrderIds :
         /\ (active_orders[i] # "NONE" /\ active_orders'[i] # "NONE") =>
               StatusRank(active_orders'[i]) >= StatusRank(active_orders[i])
         /\ (active_orders[i] = "NONE" /\ exchange[i] # "NONE") =>
               active_orders'[i] = "NONE"]_vars

(***************************************************************************)
(* Properties of the configuration commands.                               *)
(***************************************************************************)
\* a command was handled in this step
Handled(name) == command'.turn # command.turn /\ command'.name = name

\* C23: FuturesStrategy.set_leverage(v) sets the leverage to v when
\* 1 <= v <= 125 and leaves it unchanged for any other v, too high, zero or
\* negative; /set_leverage of an authorized user does the same with the
\* integer its argument spells, and changes nothing when the argument is no
\* integer.
LeverageSetOnlyInRange ==
    [][/\ Handled("set_leverage") =>
            \/ /\ command'.value \in 1..125
               /\ futures_leverage' = command'.value
            \/ /\ command'.value \notin 1..125
               /\ futures_leverage' = futures_leverage
       /\ (Handled("/set_leverage") /\ command'.authorized) =>
            \/ /\ int(command'.token).ok
               /\ int(command'.token).v \in 1..125
               /\ futures_leverage' = int(command'.token).v
            \/ /\ ~(int(command'.token).ok /\ int(command'.token).v \in 1..125)
               /\ futures_leverage' = futures_leverage]_vars

\* set_leverage(0) has just left a leverage of 20 as it was
ZeroLeverageRefused ==
    /\ command.name = "set_leverage"
    /\ command.value = 0
    /\ futures_leverage = 20

\* the argument text spells a number
Numeric(tok) == float(tok).ok /\ float(tok).v # NaN
\* the argument text spells a whole number
Whole(tok) == int(tok).ok

\* the setting a parameter name of /set_risk stands for
SettingOf(param_name) ==
    CASE param_name = "max_daily_loss" -> "max_daily_loss"
      [] param_name = "risk_per_trade" -> "risk_per_trade"
      [] param_name = "max_consecutive_losses" -> "max_consecutive_losses"
      [] param_name = "profit_target" -> "scalp_profit_target"
      [] param_name = "stop_loss" -> "scalp_stop_loss"
      [] OTHER -> "none"

\* the value the argument gives the setting, when it is in the range of the
\* setting, and "none" otherwise: a positive amount, a ratio up to 0.5 or up
\* to 0.1, a positive count
InRangeValue(field, tok) ==
    LET v == float(tok).v
    IN  CASE field = "max_daily_loss" /\ Numeric(tok) /\ v > 0 -> v
          [] field = "max_position_size" /\ Numeric(tok) /\ v > 0 -> v
          [] field = "risk_per_trade" /\ Numeric(tok) /\ v > 0 /\ v <= 500 -> v
          [] field = "scalp_profit_target" /\ Numeric(tok)
               /\ v > 0 /\ v <= 100 -> v
          [] field = "scalp_stop_loss" /\ Numeric(tok)
               /\ v > 0 /\ v <= 100 -> v
          [] field = "max_consecutive_losses" /\ Whole(tok)
               /\ int(tok).v > 0 -> int(tok).v
          [] OTHER -> NaN

\* the settings with one field set, or as they were when the field is
\* unknown or the argument is not a value in its range
OnlyThatSetting(cur, field, tok) ==
    IF field \in DOMAIN cur /\ InRangeValue(field, tok) # NaN
    THEN [cur EXCEPT ![field] = InRangeValue(field, tok)]
    ELSE cur

\* C24: /set_risk of an authorized user with a known parameter and a value
\* in its range updates exactly that setting and leaves every other one as
\* it was, and so does /set_size for max_position_size with a value above
\* zero; an unknown parameter, an argument that is no number and a value out
\* of range leave all settings as they were.
SetCommandsChangeOneSetting ==
    [][/\ (Handled("/set_risk") /\ command'.authorized) =>
            settings' = OnlyThatSetting(settings,
                                        SettingOf(lower(command'.param)),
                                        command'.token)
       /\ (Handled("/set_size") /\ command'.authorized) =>
            settings' = OnlyThatSetting(settings, "max_position_size",
                                        command'.token)]_vars

(***************************************************************************)
(* Properties of the positions and their outcomes.                         *)
(***************************************************************************)
\* the entry orders a position is recorded for in active_positions
OpenEntries ==
    (scalp_positions \cup {futures_positions[d] : d \in FutSides}) \ {0}

\* C25: a position exists, and its monitor watches the price, only once its
\* entry order has been seen FILLED; while the entry order is unfilled there
\* is no position and no monitor for it.
PositionOnlyAfterFill ==
    \A e \in EntryIds :
       (e \in OpenEntries \/ monitor[e].pc \in {"ticker", "sleep", "closing"})
          => entry_status[e] = "FILLED"

\* C26: the outcome of every closed position is given to
\* RiskManager.record_trade: when a monitor records the trade of its close,
\* the RiskManager's daily_trades_count grows by one and its daily_pnl by
\* the profit of the trade.
ClosedOutcomeReachesRiskManager ==
    [][\A m \in EntryIds :
         CloseRecorded(m) =>
            /\ daily_trades_count' = daily_trades_count + 1
            /\ daily_pnl' = daily_pnl + Profit(m)]_vars

\* C27: the futures strategy sends no second entry order for a symbol and
\* side while the position SYMBOL_SIDE is in active_positions.
NoEntryOnOpenSide ==
    futures_update.pc = "entry" => ~_has_position(futures_update.side)

\* C28: once its strategy is stopped every live monitor eventually leaves
\* its polling loop; no monitor polls for ever after the stop.
MonitorsEndAfterStop ==
    \A m \in EntryIds :
       (Live(m) /\ ~is_running[monitor[m].strategy]) ~> ~Live(m)

\* the close order of the monitor m has just been accepted: the monitor
\* leaves its loop by the break, or by the KeyError of its del
CloseAccepted(m) ==
    /\ monitor[m].pc = "closing"
    /\ monitor'[m].pc \in {"closed", "crashed"}
    /\ metrics' # metrics

\* C29: when the close a monitor sent after its poll reached the target or
\* the stop is accepted, the monitor records the outcome and its key is no
\* longer in active_positions; and a position leaves active_positions only
\* in the step in which a close order is accepted.
PositionLeavesOnlyByClose ==
    [][/\ \A m \in EntryIds :
            CloseAccepted(m) =>
               /\ metrics' = record_trade(metrics, Profit(m))
               /\ ~KeyInPositions(m)'
       /\ (OpenEntries \ OpenEntries' # {}) =>
            \E m \in EntryIds : CloseAccepted(m)]_vars

\* C30: a call of check_risk_limits decides on one snapshot of the
\* RiskManager's counters and of the settings: while the call is between
\* two of its checks no record_trade and no update of a risk setting takes
\* effect.
CheckSeesOneSnapshot ==
    [][risk_check.pc = "balance" =>
         /\ settings' = settings
         /\ daily_pnl' = daily_pnl
         /\ consecutive_losses' = consecutive_losses
         /\ daily_trades_count' = daily_trades_count]_vars

BareCalled(t) ==
    /\ task[t].pc = "idle"
    /\ \/ task'[t].pc = "place_bare_req"
       \/ task'[t].pc = "sleep" /\ task'[t].op = "place_bare_req"

\* C32: a place_order that lacks both quantity and notional is rejected
\* before a slot of the rate limiter is taken and before the gateway is
\* called, and leaves active_orders and the window of the rate limiter as
\* they were.
BarePlaceRejectedFirst ==
    [][\A t \in Callers :
         BareCalled(t) =>
            /\ task'[t].pc # "place_bare_req"
            /\ order_request_times' = order_request_times
            /\ admitted' = admitted
            /\ active_orders' = active_orders]_vars

(***************************************************************************)
(* Further properties of the RiskManager.                                  *)
(***************************************************************************)
\* the daily reset has just been done: a day had passed and a check began
DailyReset ==
    /\ hours - daily_start_time >= HoursPerDay
    /\ daily_start_time' = hours
    /\ risk_check' # risk_check

\* C33: daily_pnl, daily_trades_count and consecutive_losses change only in
\* record_trade and in the daily reset: check_risk_limits when no reset is
\* due, get_risk_status, update_position and remove_position leave all three
\* as they were.
CountersChangeOnlyByRecordOrReset ==
    [][(<<daily_pnl, daily_trades_count, consecutive_losses>>'
           # <<daily_pnl, daily_trades_count, consecutive_losses>>)
         => (Recorded \/ DailyReset)]_vars

StatusAfterLosses ==
    /\ risk_book.status.consecutive_losses = 2
    /\ consecutive_losses = 2
    /\ risk_book.position # NoRiskPosition
    /\ risk_check.pc = "done"

(***************************************************************************)
(* Properties of the scalping strategy's throttle.                         *)
(***************************************************************************)
\* C35: the scalping strategy executes at most one trade of a pair in 2000 ms
\* of trade time, also when trade messages arrive while an earlier task of
\* the pair still awaits the exchange.
OneTradePerTwoSeconds ==
    \A i, j \in 1..Len(scalper.scalp_trades) :
        i < j => abs(scalper.scalp_trades[j] - scalper.scalp_trades[i])
                     >= MinTradeGap

(***************************************************************************)
(* Properties of starting and stopping.                                    *)
(***************************************************************************)
\* "if self.is_running and self.settings.trading_enabled" of the
\* _on_market_update of both strategies
Trades(s) == is_running[s] /\ trading_enabled

\* C36: a strategy trades exactly when it was started and not stopped since:
\* a strategy that trades and is not stopped in a step trades after the step
\* (the stop of another strategy does not stop it), and a strategy that is
\* stopped does not trade because another one is started.
StrategiesStopOnTheirOwn ==
    [][\A s \in Strategies :
         /\ (Trades(s) /\ is_running'[s]) => Trades(s)'
         /\ (~is_running[s] /\ ~is_running'[s]) => ~Trades(s)']_vars

(***************************************************************************)
(* Properties of the settings.                                             *)
(***************************************************************************)
\* C37: after any updates through the Telegram commands and the web routes
\* the settings are in their ranges: max_daily_loss > 0,
\* max_consecutive_losses > 0, 0 < risk_per_trade <= 0.5,
\* 0 < scalp_profit_target <= 0.1, 0 < scalp_stop_loss <= 0.1 and
\* max_position_size > 0.
SettingsStayInRange ==
    /\ Greater(settings.max_daily_loss, 0)
    /\ settings.max_consecutive_losses > 0
    /\ Greater(settings.risk_per_trade, 0)
    /\ LessEq(settings.risk_per_trade, 500)
    /\ Greater(settings.scalp_profit_target, 0)
    /\ LessEq(settings.scalp_profit_target, 100)
    /\ Greater(settings.scalp_stop_loss, 0)
    /\ LessEq(settings.scalp_stop_loss, 100)
    /\ Greater(settings.max_position_size, 0)

UnauthorizedChangesNothing ==
    [][(command' # command /\ ~command'.authorized)
         => UNCHANGED <<is_running, trading_enabled, bot.trading_pairs,
                        futures_leverage, settings,
                        bot.notification_users>>]_vars

\* an unauthorized /unsubscribe was handled while the owner is subscribed and
\* a strategy runs
StrangerUnsubscribed ==
    /\ command.name = "/unsubscribe"
    /\ ~command.authorized
    /\ bot.notification_users = {"owner"}
    /\ is_running["scalping"] /\ trading_enabled

(***************************************************************************)
(* Properties of MXCClient's request limiter.                              *)
(***************************************************************************)
\* no more than rate_limit_count requests since last_request_time was set
WindowWithinLimit == limiter.issued <= rate_limit_count

\* C40: the limiter lets through at most rate_limit_count requests in a
\* window that started at last_request_time, and request_count is the
\* number of requests issued since that window started.
LimiterCountsEveryRequest ==
    /\ WindowWithinLimit
    /\ limiter.request_count = limiter.issued

====
